---------------------------- MODULE Spec2Model ----------------------------
(***************************************************************************)
(* Verification model of the multi-modal routing engine                    *)
(* (backend/app/routing_engine.py, backend/app/routing/cost_functions.py,  *)
(* backend/app/api_clients.py, app/demo.py).                               *)
(*                                                                         *)
(* Units.  Python computes costs as floating point seconds.  The model     *)
(* keeps them exact as integer milliseconds: 3600/speed is an integer for  *)
(* every speed of MODE_SPEEDS, so one metre costs a whole number of        *)
(* milliseconds in every mode.  Multiplicative penalties are kept in       *)
(* percent (1.3 is 130), additive weights in tenths (0.4 is 4).            *)
(***************************************************************************)
EXTENDS Integers, Sequences, FiniteSets, TLC

VARIABLES
    \* ---- cost function evaluation (one call of a preference cost function)
    cf_pref,        \* preference whose cost function is called
    cf_edge,        \* the Edge argument
    cf_mode,        \* the mode argument
    cf_prev,        \* the previous_mode argument (None when absent)
    cf_value,       \* the returned value in ms
    cf_called,      \* TRUE once the call has returned
    \* ---- one call of RoutingEngine._astar_search
    edges,          \* graph_builder.edges / graph adjacency: set of Edge records
    start,          \* start node id
    goal,           \* goal node id
    preference,     \* preference selecting cost_function
    allowed_modes,  \* the caller's allowed_modes list
    open_set,       \* heap entries (f_score, node, path, current_mode)
    closed_set,     \* set of settled node ids
    g_score,        \* dict node -> cost from start
    f_score,        \* dict node -> g_score + heuristic
    astar_pc,       \* "call", "loop" or "returned"
    astar_result,   \* the value returned
    pushed,         \* history: (node, mode) pairs ever pushed on the heap
    settled_mode,   \* history: current_mode of the entry that settled a node
    \* ---- one call of RoutingEngine.find_routes
    request,        \* the RouteRequest: preferences and transport_modes
    keys_ok,        \* validate_api_keys()["all_required"]
    translink_key,  \* api_client.translink.api_key is set
    fr_pc,          \* position of the call
    fetch_results,  \* outcome of each fetch gathered by get_all_data
    tl_results,     \* outcome of the two gathered transit feed fetches
    real_time_data, \* the dict assembled for the request
    graph_weather_penalty,  \* weather_penalty held by the graph's edges
    mode_idx,       \* index of the transport mode being processed
    processed_modes,\* directions modes already queried
    routes,         \* primary routes collected
    alternatives,   \* alternative routes collected
    gtfs_loaded,    \* gtfs_static._loaded
    gtfs_loading_started,   \* translink._gtfs_loading_started
    response,       \* what find_routes handed to its caller
    \* ---- TransLinkClient: the parsed feed caches and their callers
    now, \* the wall clock in seconds
    feed_cache, \* _trip_updates_cache, _vehicle_positions_cache, _service_alerts_cache
    cache_timestamp, \* _cache_timestamp: <<>> while None, <<t>> once set
    caller_feed, \* per caller: the feed whose fetch it awaits, or None
    last_return, \* the value most recently returned by a call
    \* ---- the static schedule parsers and the callers that need them
    ld_pc, \* per caller: position inside ensure_gtfs_loaded + lookup
    lock_holder, \* _gtfs_loading_lock: the caller holding it, 0 when free
    loading_started, \* TransLinkClient._gtfs_loading_started
    parser_loaded, \* _loaded of the client's parser and of the module-level parser
    module_parser, \* gtfs_parser._gtfs_static is not None
    load_runs, \* history: runs of GTFSStaticParser.load past its _loaded check
    \* ---- real-time fusion onto the graph's edges, request after request
    fu_edges, \* graph_builder.edges: per edge id its dynamic fields
    fu_data, \* the real_time_data of the latest request
    fu_count, \* number of requests fused so far
    \* ---- one call of filter_routes_with_closures
    cl_routes, \* the routes argument
    cl_closures, \* the closures argument
    cl_construction, \* the construction argument
    cl_filter_major_only, \* the filter_major_only argument
    cl_valid, \* returned valid_routes
    cl_filtered, \* returned filtered_routes
    cl_called, \* TRUE once the call has returned
    \* ---- delay filtering and alternates (translink_enhancements.py)
    dl_routes, \* the candidate routes
    dl_threshold, \* the delay threshold in minutes
    dl_filter_alerts, \* the filter_service_alerts argument
    dl_valid, \* valid_routes of filter_routes_by_delay_threshold
    dl_filtered, \* filtered_routes of filter_routes_by_delay_threshold
    dl_filter_called, \* TRUE once filter_routes_by_delay_threshold returned
    dl_enhanced, \* enhanced_routes of apply_translink_enhancements
    dl_high_delay, \* the routes apply_translink_enhancements filtered for delay
    dl_alternatives, \* alternatives_by_route: route id -> alternates
    dl_apply_called, \* TRUE once apply_translink_enhancements returned
    \* ---- conversion of a Google step (route_converter.py, routing_engine.py)
    cv_step, \* the Google Maps step being converted
    cv_updates, \* real_time_data[translink_trip_updates]
    cv_weather, \* real_time_data[weather]
    cv_gtfs_loaded, \* TRUE when the static schedule tables are loaded
    cv_converter, \* which converter produced cv_route_step
    cv_route_step, \* the RouteStep built from the step
    \* ---- stop name resolution (gtfs_static.py)
    st_stops, \* stops.txt: the stops in file order
    st_route_stops, \* route_to_stops[route id]: the stop ids the route visits
    st_route_id, \* the route_id argument, "" when not given
    st_prefer_station, \* the prefer_station argument
    st_called, \* TRUE once get_stop_id_by_name returned
    st_result, \* the returned stop id, <<>> for None
    \* ---- route for one preference (routing_engine.py _find_route_for_preference)
    pr_route, \* what _find_route_for_preference returned
    \* ---- concurrent requests on the shared graph (routing_engine.py find_routes)
    rq_pc, \* where each request is in find_routes
    rq_penalty, \* the weather penalty each request's fetched weather gives
    shared_weather_penalty, \* Edge.weather_penalty of the shared graph's edges
    rq_read, \* the penalty each request's search read, <<>> before
    \* ---- route scores (route_utils.py, route_scoring.py)
    sc_modes, \* the modes of the route's steps
    sc_route, \* the Route's scores in thousandths and its sustainability points
    sc_rounds, \* how many times apply_preference_scoring ran on the route
    \* ---- conversion of a whole Google route (route_converter.py)
    rv_steps, \* the route's steps, each with whether its live lookup raises
    rv_updates, \* real_time_data[translink_trip_updates] of the route
    rv_weather, \* real_time_data[weather] of the route
    rv_gtfs_loaded, \* TRUE when the schedule tables are loaded
    rv_route, \* what convert_google_route_to_route returned
    \* ---- graph construction (src/app/graph_builder.py)
    gb_pc, \* the step build_graph is at
    gb_nodes, \* self.nodes in insertion order
    gb_edges, \* self.edges
    gb_osmnx, \* OSMNX_AVAILABLE
    gb_fetch, \* per layer, whether its fetch succeeds
    gb_stops, \* the transit stops the feed returns
    gb_vehicles, \* the Lime stations the feed returns
    gb_box, \* settings.vancouver_bounds, metres from the centre
    gb_radius, \* radius // grid_size
    gb_attempted \* the layers whose method was entered

cost_vars == <<cf_pref, cf_edge, cf_mode, cf_prev, cf_value, cf_called>>

astar_vars ==
    <<edges, start, goal, preference, allowed_modes, open_set, closed_set,
      g_score, f_score, astar_pc, astar_result, pushed, settled_mode>>

find_vars ==
    <<request, keys_ok, translink_key, fr_pc, fetch_results, tl_results,
      real_time_data, graph_weather_penalty, mode_idx, processed_modes,
      routes, alternatives, gtfs_loaded, gtfs_loading_started, response>>

base_vars == <<cost_vars, astar_vars, find_vars>>

cache_vars ==
    <<now, feed_cache, cache_timestamp, caller_feed, last_return>>

load_vars ==
    <<ld_pc, lock_holder, loading_started, parser_loaded, module_parser,
      load_runs>>

fusion_vars ==
    <<fu_edges, fu_data, fu_count>>

closure_vars ==
    <<cl_routes, cl_closures, cl_construction, cl_filter_major_only,
      cl_valid, cl_filtered, cl_called>>

delay_vars ==
    <<dl_routes, dl_threshold, dl_filter_alerts, dl_valid, dl_filtered,
      dl_filter_called, dl_enhanced, dl_high_delay, dl_alternatives,
      dl_apply_called>>

conv_vars ==
    <<cv_step, cv_updates, cv_weather, cv_gtfs_loaded, cv_converter,
      cv_route_step>>

stop_vars ==
    <<st_stops, st_route_stops, st_route_id, st_prefer_station, st_called,
      st_result>>

pref_vars ==
    <<pr_route>>

conc_vars ==
    <<rq_pc, rq_penalty, shared_weather_penalty, rq_read>>

score_vars ==
    <<sc_modes, sc_route, sc_rounds>>

rconv_vars ==
    <<rv_steps, rv_updates, rv_weather, rv_gtfs_loaded, rv_route>>

builder_vars ==
    <<gb_pc, gb_nodes, gb_edges, gb_osmnx, gb_fetch, gb_stops, gb_vehicles,
      gb_box, gb_radius, gb_attempted>>

ext_vars ==
    <<cache_vars, load_vars, fusion_vars, closure_vars, delay_vars,
      conv_vars, stop_vars, pref_vars, conc_vars, score_vars, rconv_vars,
      builder_vars>>

not_cache_vars ==
    <<base_vars, load_vars, fusion_vars, closure_vars, delay_vars,
      conv_vars, stop_vars, pref_vars, conc_vars, score_vars, rconv_vars,
      builder_vars>>

not_load_vars ==
    <<base_vars, cache_vars, fusion_vars, closure_vars, delay_vars,
      conv_vars, stop_vars, pref_vars, conc_vars, score_vars, rconv_vars,
      builder_vars>>

not_fusion_vars ==
    <<base_vars, cache_vars, load_vars, closure_vars, delay_vars,
      conv_vars, stop_vars, pref_vars, conc_vars, score_vars, rconv_vars,
      builder_vars>>

not_closure_vars ==
    <<base_vars, cache_vars, load_vars, fusion_vars, delay_vars, conv_vars,
      stop_vars, pref_vars, conc_vars, score_vars, rconv_vars,
      builder_vars>>

not_delay_vars ==
    <<base_vars, cache_vars, load_vars, fusion_vars, closure_vars,
      conv_vars, stop_vars, pref_vars, conc_vars, score_vars, rconv_vars,
      builder_vars>>

not_conv_vars ==
    <<base_vars, cache_vars, load_vars, fusion_vars, closure_vars,
      delay_vars, stop_vars, pref_vars, conc_vars, score_vars, rconv_vars,
      builder_vars>>

not_stop_vars ==
    <<base_vars, cache_vars, load_vars, fusion_vars, closure_vars,
      delay_vars, conv_vars, pref_vars, conc_vars, score_vars, rconv_vars,
      builder_vars>>

not_pref_vars ==
    <<base_vars, cache_vars, load_vars, fusion_vars, closure_vars,
      delay_vars, conv_vars, stop_vars, conc_vars, score_vars, rconv_vars,
      builder_vars>>

not_conc_vars ==
    <<base_vars, cache_vars, load_vars, fusion_vars, closure_vars,
      delay_vars, conv_vars, stop_vars, pref_vars, score_vars, rconv_vars,
      builder_vars>>

not_score_vars ==
    <<base_vars, cache_vars, load_vars, fusion_vars, closure_vars,
      delay_vars, conv_vars, stop_vars, pref_vars, conc_vars, rconv_vars,
      builder_vars>>

not_rconv_vars ==
    <<base_vars, cache_vars, load_vars, fusion_vars, closure_vars,
      delay_vars, conv_vars, stop_vars, pref_vars, conc_vars, score_vars,
      builder_vars>>

not_builder_vars ==
    <<base_vars, cache_vars, load_vars, fusion_vars, closure_vars,
      delay_vars, conv_vars, stop_vars, pref_vars, conc_vars, score_vars,
      rconv_vars>>

vars ==
    <<cf_pref, cf_edge, cf_mode, cf_prev, cf_value, cf_called, edges,
      start, goal, preference, allowed_modes, open_set, closed_set,
      g_score, f_score, astar_pc, astar_result, pushed, settled_mode,
      request, keys_ok, translink_key, fr_pc, fetch_results, tl_results,
      real_time_data, graph_weather_penalty, mode_idx, processed_modes,
      routes, alternatives, gtfs_loaded, gtfs_loading_started, response,
      now, feed_cache, cache_timestamp, caller_feed, last_return, ld_pc,
      lock_holder, loading_started, parser_loaded, module_parser,
      load_runs, fu_edges, fu_data, fu_count, cl_routes, cl_closures,
      cl_construction, cl_filter_major_only, cl_valid, cl_filtered,
      cl_called, dl_routes, dl_threshold, dl_filter_alerts, dl_valid,
      dl_filtered, dl_filter_called, dl_enhanced, dl_high_delay,
      dl_alternatives, dl_apply_called, cv_step, cv_updates, cv_weather,
      cv_gtfs_loaded, cv_converter, cv_route_step, st_stops,
      st_route_stops, st_route_id, st_prefer_station, st_called, st_result,
      pr_route, rq_pc, rq_penalty, shared_weather_penalty, rq_read,
      sc_modes, sc_route, sc_rounds, rv_steps, rv_updates, rv_weather,
      rv_gtfs_loaded, rv_route, gb_pc, gb_nodes, gb_edges, gb_osmnx,
      gb_fetch, gb_stops, gb_vehicles, gb_box, gb_radius, gb_attempted>>

(***************************************************************************)
(* models.py: enumerations                                                 *)
(***************************************************************************)
None == "None"

TransportMode ==
    {"walking", "biking", "scooter", "car", "bus", "skytrain", "seabus",
     "westcoast_express"}

RoutePreference ==
    {"fastest", "safest", "energy_efficient", "scenic", "healthy", "cheapest"}

(***************************************************************************)
(* cost_functions.py / RoutingEngine.__init__: the two tables              *)
(***************************************************************************)
MODE_SPEEDS ==
    [m \in TransportMode |->
        CASE m = "walking" -> 5
          [] m = "biking" -> 15
          [] m = "scooter" -> 20
          [] m = "car" -> 50
          [] m = "bus" -> 25
          [] m = "skytrain" -> 40
          [] m = "seabus" -> 15
          [] m = "westcoast_express" -> 60]

\* a plausible slip: car -> walking copied from walking -> car
MODE_SWITCH_COSTS_symmetric ==
    (<<"walking", "biking">> :> 60) @@ (<<"walking", "scooter">> :> 120) @@
    (<<"walking", "car">> :> 300) @@ (<<"walking", "bus">> :> 180) @@
    (<<"biking", "walking">> :> 30) @@ (<<"biking", "scooter">> :> 90) @@
    (<<"biking", "car">> :> 240) @@ (<<"biking", "bus">> :> 120) @@
    (<<"scooter", "walking">> :> 60) @@ (<<"scooter", "biking">> :> 60) @@
    (<<"scooter", "car">> :> 180) @@ (<<"scooter", "bus">> :> 90) @@
    (<<"car", "walking">> :> 300) @@ (<<"car", "biking">> :> 180) @@
    (<<"car", "scooter">> :> 150) @@ (<<"car", "bus">> :> 300) @@
    (<<"bus", "walking">> :> 60) @@ (<<"bus", "biking">> :> 90) @@
    (<<"bus", "scooter">> :> 90) @@ (<<"bus", "car">> :> 240)

\* seconds, keyed by the ordered pair (previous_mode, mode)
MODE_SWITCH_COSTS ==
    (<<"walking", "biking">> :> 60) @@ (<<"walking", "scooter">> :> 120) @@
    (<<"walking", "car">> :> 300) @@ (<<"walking", "bus">> :> 180) @@
    (<<"biking", "walking">> :> 30) @@ (<<"biking", "scooter">> :> 90) @@
    (<<"biking", "car">> :> 240) @@ (<<"biking", "bus">> :> 120) @@
    (<<"scooter", "walking">> :> 60) @@ (<<"scooter", "biking">> :> 60) @@
    (<<"scooter", "car">> :> 180) @@ (<<"scooter", "bus">> :> 90) @@
    (<<"car", "walking">> :> 120) @@ (<<"car", "biking">> :> 180) @@
    (<<"car", "scooter">> :> 150) @@ (<<"car", "bus">> :> 300) @@
    (<<"bus", "walking">> :> 60) @@ (<<"bus", "biking">> :> 90) @@
    (<<"bus", "scooter">> :> 90) @@ (<<"bus", "car">> :> 240)

\* MODE_SWITCH_COSTS.get((previous_mode, mode), 0), in seconds
switch_cost(previous_mode, mode) ==
    IF <<previous_mode, mode>> \in DOMAIN MODE_SWITCH_COSTS
    THEN MODE_SWITCH_COSTS[<<previous_mode, mode>>]
    ELSE 0

\* a plausible slip: the penalty is charged whenever a previous mode exists
add_switch_cost_always(value, mode, previous_mode) ==
    IF previous_mode # None
    THEN value + 1000 * (IF previous_mode = mode THEN 60
                         ELSE switch_cost(previous_mode, mode))
    ELSE value

\* "if previous_mode and previous_mode != mode: value += switch_cost"
add_switch_cost(value, mode, previous_mode) ==
    IF previous_mode # None /\ previous_mode # mode
    THEN value + 1000 * switch_cost(previous_mode, mode)
    ELSE value

\* edge.distance / (MODE_SPEEDS[mode] * 1000 / 3600), in ms
base_time(edge, mode) == (edge.distance * 3600) \div MODE_SPEEDS[mode]

fastest_cost_function(edge, mode, previous_mode) ==
    LET effective_time ==
            (((base_time(edge, mode) * edge.weather_penalty) \div 100)
                * edge.event_penalty) \div 100
    IN  add_switch_cost(effective_time, mode, previous_mode)

safest_cost_function(edge, mode, previous_mode) ==
    LET safety_penalty ==
            IF mode = "car" /\ ~edge.is_bike_lane THEN 12
            ELSE IF mode \in {"biking", "scooter"} /\ ~edge.is_bike_lane THEN 15
            ELSE 10
        effective_time ==
            ((((((base_time(edge, mode) * edge.weather_penalty) \div 100)
                * edge.event_penalty) \div 100)) * safety_penalty) \div 10
    IN  add_switch_cost(effective_time, mode, previous_mode)

energy_weights(mode) ==
    CASE mode = "walking" -> 1
      [] mode = "biking" -> 2
      [] mode = "scooter" -> 3
      [] mode = "bus" -> 4
      [] mode = "skytrain" -> 4
      [] mode = "car" -> 10
      [] OTHER -> 5

energy_efficient_cost_function(edge, mode, previous_mode) ==
    LET energy_cost == edge.distance * energy_weights(mode) * 100
        effective_time == base_time(edge, mode) + energy_cost
    IN  add_switch_cost(effective_time, mode, previous_mode)

scenic_bonus(mode) ==
    CASE mode = "walking" -> -2
      [] mode = "biking" -> -1
      [] mode = "scooter" -> 0
      [] mode = "bus" -> 0
      [] mode = "car" -> 1
      [] OTHER -> 0

scenic_cost_function(edge, mode, previous_mode) ==
    LET effective_time == (base_time(edge, mode) * (10 + scenic_bonus(mode))) \div 10
    IN  add_switch_cost(effective_time, mode, previous_mode)

health_bonus(mode) ==
    CASE mode = "walking" -> -3
      [] mode = "biking" -> -2
      [] mode = "scooter" -> -1
      [] mode = "bus" -> 0
      [] mode = "car" -> 2
      [] OTHER -> 0

healthy_cost_function(edge, mode, previous_mode) ==
    LET effective_time == (base_time(edge, mode) * (10 + health_bonus(mode))) \div 10
    IN  add_switch_cost(effective_time, mode, previous_mode)

cost_weights(mode) ==
    CASE mode = "walking" -> 0
      [] mode = "biking" -> 1
      [] mode = "scooter" -> 5
      [] mode = "bus" -> 3
      [] mode = "skytrain" -> 4
      [] mode = "car" -> 10
      [] OTHER -> 5

cheapest_cost_function(edge, mode, previous_mode) ==
    LET cost == base_time(edge, mode) + (edge.distance * cost_weights(mode)) \div 10
    IN  add_switch_cost(cost, mode, previous_mode)

\* get_cost_function(preference)(edge, mode, previous_mode)
cost_function(pref, edge, mode, previous_mode) ==
    CASE pref = "fastest" -> fastest_cost_function(edge, mode, previous_mode)
      [] pref = "safest" -> safest_cost_function(edge, mode, previous_mode)
      [] pref = "energy_efficient" ->
            energy_efficient_cost_function(edge, mode, previous_mode)
      [] pref = "scenic" -> scenic_cost_function(edge, mode, previous_mode)
      [] pref = "healthy" -> healthy_cost_function(edge, mode, previous_mode)
      [] pref = "cheapest" -> cheapest_cost_function(edge, mode, previous_mode)
      [] OTHER -> fastest_cost_function(edge, mode, previous_mode)

(***************************************************************************)
(* Edges offered to a single cost function call                            *)
(***************************************************************************)
\* edge lengths are 500 m, 1000 m, ... up to MaxEdgeUnits * 500 m
MaxEdgeUnits == 2

\* weather_penalty values fusion can leave on an edge (percent)
WeatherPenalties == {100, 130, 180}

CostEdges ==
    [distance : {500 * k : k \in 1..MaxEdgeUnits},
     weather_penalty : WeatherPenalties,
     event_penalty : {100},
     is_bike_lane : BOOLEAN]

CostIdle ==
    /\ cf_pref = None
    /\ cf_edge = None
    /\ cf_mode = None
    /\ cf_prev = None
    /\ cf_value = 0
    /\ cf_called = FALSE

AstarIdle ==
    /\ edges = {}
    /\ start = None
    /\ goal = None
    /\ preference = None
    /\ allowed_modes = <<>>
    /\ open_set = {}
    /\ closed_set = {}
    /\ g_score = <<>>
    /\ f_score = <<>>
    /\ astar_pc = "idle"
    /\ astar_result = [kind |-> "pending", path |-> <<>>]
    /\ pushed = {}
    /\ settled_mode = <<>>

FindIdle ==
    /\ request = [preferences |-> <<>>, transport_modes |-> <<>>]
    /\ keys_ok = FALSE
    /\ translink_key = FALSE
    /\ fr_pc = "idle"
    /\ fetch_results = <<>>
    /\ tl_results = <<>>
    /\ real_time_data = <<>>
    /\ graph_weather_penalty = 100
    /\ mode_idx = 0
    /\ processed_modes = {}
    /\ routes = <<>>
    /\ alternatives = <<>>
    /\ gtfs_loaded = FALSE
    /\ gtfs_loading_started = FALSE
    /\ response = [kind |-> "pending", routes |-> <<>>, alternatives |-> <<>>]

(***************************************************************************)
(* Idle values of the components that follow find_routes                   *)
(***************************************************************************)
CacheIdle ==
    /\ now = 0
    /\ feed_cache = <<>>
    /\ cache_timestamp = <<>>
    /\ caller_feed = <<>>
    /\ last_return = [feed |-> None, from_cache |-> FALSE, items |-> "none", age |-> 0]

LoadIdle ==
    /\ ld_pc = <<>>
    /\ lock_holder = 0
    /\ loading_started = FALSE
    /\ parser_loaded = <<>>
    /\ module_parser = FALSE
    /\ load_runs = 0

FusionIdle ==
    /\ fu_edges = <<>>
    /\ fu_data = <<>>
    /\ fu_count = 0

ClosureIdle ==
    /\ cl_routes = <<>>
    /\ cl_closures = <<>>
    /\ cl_construction = <<>>
    /\ cl_filter_major_only = FALSE
    /\ cl_valid = <<>>
    /\ cl_filtered = <<>>
    /\ cl_called = FALSE

DelayIdle ==
    /\ dl_routes = <<>>
    /\ dl_threshold = 0
    /\ dl_filter_alerts = FALSE
    /\ dl_valid = <<>>
    /\ dl_filtered = <<>>
    /\ dl_filter_called = FALSE
    /\ dl_enhanced = <<>>
    /\ dl_high_delay = <<>>
    /\ dl_alternatives = <<>>
    /\ dl_apply_called = FALSE

ConvIdle ==
    /\ cv_step = <<>>
    /\ cv_updates = <<>>
    /\ cv_weather = <<>>
    /\ cv_gtfs_loaded = FALSE
    /\ cv_converter = "none"
    /\ cv_route_step = <<>>

StopIdle ==
    /\ st_stops = <<>>
    /\ st_route_stops = {}
    /\ st_route_id = ""
    /\ st_prefer_station = FALSE
    /\ st_called = FALSE
    /\ st_result = <<>>

PrefIdle ==
    /\ pr_route = [kind |-> "pending", steps |-> 0, total_distance |-> 0, total_time |-> 0]

ConcIdle ==
    /\ rq_pc = <<>>
    /\ rq_penalty = <<>>
    /\ shared_weather_penalty = 100
    /\ rq_read = <<>>

ScoreIdle ==
    /\ sc_modes = <<>>
    /\ sc_route = <<>>
    /\ sc_rounds = 0

RconvIdle ==
    /\ rv_steps = <<>>
    /\ rv_updates = <<>>
    /\ rv_weather = <<>>
    /\ rv_gtfs_loaded = FALSE
    /\ rv_route = <<>>

BuilderIdle ==
    /\ gb_pc = "idle"
    /\ gb_nodes = <<>>
    /\ gb_edges = {}
    /\ gb_osmnx = FALSE
    /\ gb_fetch = <<>>
    /\ gb_stops = <<>>
    /\ gb_vehicles = <<>>
    /\ gb_box = <<>>
    /\ gb_radius = 0
    /\ gb_attempted = {}

BaseIdle == CostIdle /\ AstarIdle /\ FindIdle

NotCacheIdle ==
    /\ BaseIdle
    /\ LoadIdle
    /\ FusionIdle
    /\ ClosureIdle
    /\ DelayIdle
    /\ ConvIdle
    /\ StopIdle
    /\ PrefIdle
    /\ ConcIdle
    /\ ScoreIdle
    /\ RconvIdle
    /\ BuilderIdle

NotLoadIdle ==
    /\ BaseIdle
    /\ CacheIdle
    /\ FusionIdle
    /\ ClosureIdle
    /\ DelayIdle
    /\ ConvIdle
    /\ StopIdle
    /\ PrefIdle
    /\ ConcIdle
    /\ ScoreIdle
    /\ RconvIdle
    /\ BuilderIdle

NotFusionIdle ==
    /\ BaseIdle
    /\ CacheIdle
    /\ LoadIdle
    /\ ClosureIdle
    /\ DelayIdle
    /\ ConvIdle
    /\ StopIdle
    /\ PrefIdle
    /\ ConcIdle
    /\ ScoreIdle
    /\ RconvIdle
    /\ BuilderIdle

NotClosureIdle ==
    /\ BaseIdle
    /\ CacheIdle
    /\ LoadIdle
    /\ FusionIdle
    /\ DelayIdle
    /\ ConvIdle
    /\ StopIdle
    /\ PrefIdle
    /\ ConcIdle
    /\ ScoreIdle
    /\ RconvIdle
    /\ BuilderIdle

NotDelayIdle ==
    /\ BaseIdle
    /\ CacheIdle
    /\ LoadIdle
    /\ FusionIdle
    /\ ClosureIdle
    /\ ConvIdle
    /\ StopIdle
    /\ PrefIdle
    /\ ConcIdle
    /\ ScoreIdle
    /\ RconvIdle
    /\ BuilderIdle

NotConvIdle ==
    /\ BaseIdle
    /\ CacheIdle
    /\ LoadIdle
    /\ FusionIdle
    /\ ClosureIdle
    /\ DelayIdle
    /\ StopIdle
    /\ PrefIdle
    /\ ConcIdle
    /\ ScoreIdle
    /\ RconvIdle
    /\ BuilderIdle

NotStopIdle ==
    /\ BaseIdle
    /\ CacheIdle
    /\ LoadIdle
    /\ FusionIdle
    /\ ClosureIdle
    /\ DelayIdle
    /\ ConvIdle
    /\ PrefIdle
    /\ ConcIdle
    /\ ScoreIdle
    /\ RconvIdle
    /\ BuilderIdle

NotPrefIdle ==
    /\ BaseIdle
    /\ CacheIdle
    /\ LoadIdle
    /\ FusionIdle
    /\ ClosureIdle
    /\ DelayIdle
    /\ ConvIdle
    /\ StopIdle
    /\ ConcIdle
    /\ ScoreIdle
    /\ RconvIdle
    /\ BuilderIdle

NotConcIdle ==
    /\ BaseIdle
    /\ CacheIdle
    /\ LoadIdle
    /\ FusionIdle
    /\ ClosureIdle
    /\ DelayIdle
    /\ ConvIdle
    /\ StopIdle
    /\ PrefIdle
    /\ ScoreIdle
    /\ RconvIdle
    /\ BuilderIdle

NotScoreIdle ==
    /\ BaseIdle
    /\ CacheIdle
    /\ LoadIdle
    /\ FusionIdle
    /\ ClosureIdle
    /\ DelayIdle
    /\ ConvIdle
    /\ StopIdle
    /\ PrefIdle
    /\ ConcIdle
    /\ RconvIdle
    /\ BuilderIdle

NotRconvIdle ==
    /\ BaseIdle
    /\ CacheIdle
    /\ LoadIdle
    /\ FusionIdle
    /\ ClosureIdle
    /\ DelayIdle
    /\ ConvIdle
    /\ StopIdle
    /\ PrefIdle
    /\ ConcIdle
    /\ ScoreIdle
    /\ BuilderIdle

NotBuilderIdle ==
    /\ BaseIdle
    /\ CacheIdle
    /\ LoadIdle
    /\ FusionIdle
    /\ ClosureIdle
    /\ DelayIdle
    /\ ConvIdle
    /\ StopIdle
    /\ PrefIdle
    /\ ConcIdle
    /\ ScoreIdle
    /\ RconvIdle

ExtIdle ==
    /\ CacheIdle
    /\ LoadIdle
    /\ FusionIdle
    /\ ClosureIdle
    /\ DelayIdle
    /\ ConvIdle
    /\ StopIdle
    /\ PrefIdle
    /\ ConcIdle
    /\ ScoreIdle
    /\ RconvIdle
    /\ BuilderIdle

InitCost ==
    /\ AstarIdle
    /\ FindIdle
    /\ ExtIdle
    /\ cf_pref \in RoutePreference
    /\ cf_edge \in CostEdges
    /\ cf_mode \in TransportMode
    /\ cf_prev \in TransportMode \cup {None}
    /\ cf_value = 0
    /\ cf_called = FALSE

\* one call cost_function(edge, mode, previous_mode)
CallCostFunction ==
    /\ ~cf_called
    /\ cf_value' = cost_function(cf_pref, cf_edge, cf_mode, cf_prev)
    /\ cf_called' = TRUE
    /\ UNCHANGED <<cf_pref, cf_edge, cf_mode, cf_prev>>
    /\ UNCHANGED astar_vars
    /\ UNCHANGED find_vars
    /\ UNCHANGED ext_vars

NextCost == CallCostFunction

SpecCost == InitCost /\ [][NextCost]_vars

(***************************************************************************)
(* Claims about the cost functions                                         *)
(***************************************************************************)
\* what the call would have returned with no previous mode
cf_no_penalty == cost_function(cf_pref, cf_edge, cf_mode, None)

\* C9 (as stated): with previous mode p different from m, the value exceeds
\* the no-penalty value by exactly the table entry for (p, m), for every
\* pair of modes.
C9_Original ==
    (cf_called /\ cf_prev \notin {None, cf_mode}) =>
        /\ <<cf_prev, cf_mode>> \in DOMAIN MODE_SWITCH_COSTS
        /\ cf_value - cf_no_penalty = 1000 * MODE_SWITCH_COSTS[<<cf_prev, cf_mode>>]

\* C9 (amended): previous mode absent or identical gives the no-penalty
\* value; a different previous mode p adds exactly the table entry for
\* (p, m) when the table has one and nothing when it has none.
C9_SwitchPenaltyExact ==
    cf_called =>
        /\ cf_prev \in {None, cf_mode} => cf_value = cf_no_penalty
        /\ (cf_prev \notin {None, cf_mode}
                /\ <<cf_prev, cf_mode>> \in DOMAIN MODE_SWITCH_COSTS) =>
             cf_value - cf_no_penalty = 1000 * MODE_SWITCH_COSTS[<<cf_prev, cf_mode>>]
        /\ (cf_prev \notin {None, cf_mode}
                /\ <<cf_prev, cf_mode>> \notin DOMAIN MODE_SWITCH_COSTS) =>
             cf_value = cf_no_penalty

C9_Witness ==
    /\ cf_called
    /\ cf_pref = "energy_efficient"
    /\ cf_prev = "walking"
    /\ cf_mode = "car"
    /\ cf_value = cf_no_penalty + 300000

\* C10 (as stated): for any two distinct modes a, b with table entries the
\* penalty a -> b differs from the penalty b -> a.
C10_Original ==
    (cf_called /\ cf_prev # cf_mode
        /\ <<cf_prev, cf_mode>> \in DOMAIN MODE_SWITCH_COSTS
        /\ <<cf_mode, cf_prev>> \in DOMAIN MODE_SWITCH_COSTS) =>
        cf_value - cf_no_penalty # 1000 * MODE_SWITCH_COSTS[<<cf_mode, cf_prev>>]

\* C10 (amended): the penalty charged for a -> b differs from the table's
\* penalty for b -> a for every pair of distinct modes with entries except
\* scooter and bus, which cost 90 s in both directions.
C10_Asymmetric ==
    (cf_called /\ cf_prev # cf_mode
        /\ <<cf_prev, cf_mode>> \in DOMAIN MODE_SWITCH_COSTS
        /\ <<cf_mode, cf_prev>> \in DOMAIN MODE_SWITCH_COSTS) =>
        IF {cf_prev, cf_mode} = {"scooter", "bus"}
        THEN cf_value - cf_no_penalty = 90000
        ELSE cf_value - cf_no_penalty # 1000 * MODE_SWITCH_COSTS[<<cf_mode, cf_prev>>]

C10_Witness ==
    /\ cf_called
    /\ cf_prev = "car"
    /\ cf_mode = "walking"
    /\ cf_value - cf_no_penalty = 120000
    /\ MODE_SWITCH_COSTS[<<"walking", "car">>] = 300

(***************************************************************************)
(* The graph searched by _astar_search                                     *)
(***************************************************************************)
Nodes == {"A", "B", "C"}

\* Node.point: the nodes lie on one meridian, position in metres
node_point(n) ==
    CASE n = "A" -> 0
      [] n = "B" -> 500
      [] n = "C" -> 1000

\* Point.distance_to: great-circle distance, here along the meridian
distance_to(p1, p2) == IF p1 >= p2 THEN p1 - p2 ELSE p2 - p1

\* permitted-mode lists an edge may carry
EdgeModeLists == {<<"walking">>, <<"car">>, <<"walking", "car">>}

\* allowed_modes lists a caller may pass
AllowedModeLists == {<<"walking">>, <<"car">>, <<"walking", "car">>}

\* an Edge as the builder creates it: its length is the distance between
\* its end nodes, the dynamic penalties have their defaults
MakeEdge(u, v, modes) ==
    [from_node |-> u, to_node |-> v,
     distance |-> distance_to(node_point(u), node_point(v)),
     allowed_modes |-> modes,
     weather_penalty |-> 100, event_penalty |-> 100, is_bike_lane |-> FALSE]

AllEdges == {MakeEdge(u, v, ms) : <<u, v>> \in {p \in Nodes \X Nodes : p[1] # p[2]},
                                  ms \in EdgeModeLists}

\* at most MaxEdges edges, one per ordered node pair
MaxEdges == 3

Graphs ==
    {es \in SUBSET AllEdges :
        /\ Cardinality(es) <= MaxEdges
        /\ \A e1, e2 \in es :
              (e1.from_node = e2.from_node /\ e1.to_node = e2.to_node) => e1 = e2}

SeqToSet(sq) == {sq[i] : i \in 1..Len(sq)}

(***************************************************************************)
(* _euclidean_heuristic and the heap order                                 *)
(***************************************************************************)
\* distance / (mode_speeds[WALKING] * 1000 / 3600), in ms
euclidean_heuristic(node1, node2) ==
    IF node1 \notin Nodes \/ node2 \notin Nodes THEN 0
    ELSE (distance_to(node_point(node1), node_point(node2)) * 3600)
            \div MODE_SPEEDS["walking"]

\* Python compares node ids and modes as strings
NodeRank(n) == CASE n = "A" -> 1 [] n = "B" -> 2 [] n = "C" -> 3

ModeRank(m) ==
    CASE m = "biking" -> 1
      [] m = "bus" -> 2
      [] m = "car" -> 3
      [] m = "scooter" -> 4
      [] m = "seabus" -> 5
      [] m = "skytrain" -> 6
      [] m = "walking" -> 7
      [] m = "westcoast_express" -> 8

\* tuple order on path steps (from, to, mode)
StepLess(s, t) ==
    \/ NodeRank(s[1]) < NodeRank(t[1])
    \/ s[1] = t[1] /\ NodeRank(s[2]) < NodeRank(t[2])
    \/ s[1] = t[1] /\ s[2] = t[2] /\ ModeRank(s[3]) < ModeRank(t[3])

\* list order on paths
RECURSIVE PathLess(_, _)
PathLess(p, q) ==
    IF q = <<>> THEN FALSE
    ELSE IF p = <<>> THEN TRUE
    ELSE IF p[1] = q[1] THEN PathLess(Tail(p), Tail(q))
    ELSE StepLess(p[1], q[1])

\* heapq order on (f_score, node, path, current_mode); two entries with the
\* same path were pushed for the same step and carry the same mode
EntryLess(a, b) ==
    \/ a.f < b.f
    \/ a.f = b.f /\ NodeRank(a.node) < NodeRank(b.node)
    \/ a.f = b.f /\ a.node = b.node /\ PathLess(a.path, b.path)

\* heapq.heappop(open_set)
HeapMin(os) == CHOOSE e \in os : \A o \in os \ {e} : EntryLess(e, o)

(***************************************************************************)
(* _astar_search                                                           *)
(***************************************************************************)
\* every mode of an edge, whatever the caller allows
RECURSIVE EdgeModes_unfiltered(_, _, _)
EdgeModes_unfiltered(edge, i, allowed) ==
    IF i > Len(edge.allowed_modes) THEN <<>>
    ELSE <<<<edge, edge.allowed_modes[i]>>>> \o EdgeModes_unfiltered(edge, i + 1, allowed)

\* "for mode in edge.allowed_modes: if mode not in allowed_modes: continue"
RECURSIVE EdgeModes(_, _, _)
EdgeModes(edge, i, allowed) ==
    IF i > Len(edge.allowed_modes) THEN <<>>
    ELSE (IF edge.allowed_modes[i] \in SeqToSet(allowed)
          THEN <<<<edge, edge.allowed_modes[i]>>>> ELSE <<>>)
         \o EdgeModes(edge, i + 1, allowed)

NodeOrder == <<"A", "B", "C">>

\* a plausible slip: the expansion never consults allowed_modes
RECURSIVE Candidates_ignore_allowed(_, _, _, _, _)
Candidates_ignore_allowed(es, current, closed, allowed, i) ==
    IF i > Len(NodeOrder) THEN <<>>
    ELSE LET nb == NodeOrder[i]
             out == {e \in es : e.from_node = current /\ e.to_node = nb}
         IN  (IF nb \notin closed /\ out # {}
              THEN EdgeModes_unfiltered(CHOOSE e \in out : TRUE, 1, allowed)
              ELSE <<>>)
             \o Candidates_ignore_allowed(es, current, closed, allowed, i + 1)

\* the (edge, mode) pairs the neighbour loop of an expansion visits, in
\* order: "for neighbor, edge_data in graph[current].items()" skips
\* neighbours already in closed_set and edges sharing no mode with the caller
RECURSIVE Candidates(_, _, _, _, _)
Candidates(es, current, closed, allowed, i) ==
    IF i > Len(NodeOrder) THEN <<>>
    ELSE LET nb == NodeOrder[i]
             out == {e \in es : e.from_node = current /\ e.to_node = nb}
         IN  (IF nb \notin closed /\ out # {}
              THEN LET edge == CHOOSE e \in out : TRUE
                   IN  IF SeqToSet(edge.allowed_modes) \cap SeqToSet(allowed) = {}
                       THEN <<>>
                       ELSE EdgeModes(edge, 1, allowed)
              ELSE <<>>)
             \o Candidates(es, current, closed, allowed, i + 1)

\* the relaxation loop body, applied to the candidates in order; st carries
\* g_score, f_score, the heap and the push history
RECURSIVE Relax(_, _, _, _, _, _)
Relax(cands, i, current, path, current_mode, st) ==
    IF i > Len(cands) THEN st
    ELSE LET edge == cands[i][1]
             mode == cands[i][2]
             neighbor == edge.to_node
             edge_cost == cost_function(preference, edge, mode, current_mode)
             tentative_g == st.g[current] + edge_cost
             better == neighbor \notin DOMAIN st.g \/ tentative_g < st.g[neighbor]
             f == tentative_g + euclidean_heuristic(neighbor, goal)
             entry == [f |-> f, node |-> neighbor,
                       path |-> Append(path, <<current, neighbor, mode>>),
                       mode |-> mode]
             nst == IF better
                    THEN [g |-> (neighbor :> tentative_g) @@ st.g,
                          f |-> (neighbor :> f) @@ st.f,
                          open |-> st.open \cup {entry},
                          pushed |-> st.pushed \cup {<<neighbor, mode>>}]
                    ELSE st
         IN  Relax(cands, i + 1, current, path, current_mode, nst)

InitAstar ==
    /\ CostIdle
    /\ FindIdle
    /\ ExtIdle
    /\ edges \in Graphs
    /\ start = "A"
    /\ goal \in Nodes
    /\ preference \in RoutePreference
    /\ allowed_modes \in AllowedModeLists
    /\ open_set = {}
    /\ closed_set = {}
    /\ g_score = <<>>
    /\ f_score = <<>>
    /\ astar_pc = "call"
    /\ astar_result = [kind |-> "pending", path |-> <<>>]
    /\ pushed = {}
    /\ settled_mode = <<>>

\* lines 349-357: the heap, closed_set, g_score and f_score are set up
AstarBegin ==
    /\ astar_pc = "call"
    /\ open_set' = {[f |-> 0, node |-> start, path |-> <<>>, mode |-> None]}
    /\ closed_set' = {}
    /\ g_score' = (start :> 0)
    /\ f_score' = (start :> euclidean_heuristic(start, goal))
    /\ astar_pc' = "loop"
    /\ UNCHANGED <<edges, start, goal, preference, allowed_modes, astar_result,
                   pushed, settled_mode>>
    /\ UNCHANGED cost_vars
    /\ UNCHANGED find_vars
    /\ UNCHANGED ext_vars

\* "if current in closed_set: continue"
AstarSkipClosed ==
    /\ astar_pc = "loop"
    /\ open_set # {}
    /\ LET top == HeapMin(open_set)
       IN  /\ top.node \in closed_set
           /\ open_set' = open_set \ {top}
    /\ UNCHANGED <<edges, start, goal, preference, allowed_modes, closed_set,
                   g_score, f_score, astar_pc, astar_result, pushed, settled_mode>>
    /\ UNCHANGED cost_vars
    /\ UNCHANGED find_vars
    /\ UNCHANGED ext_vars

\* "closed_set.add(current); if current == goal: return path"
AstarReachGoal ==
    /\ astar_pc = "loop"
    /\ open_set # {}
    /\ LET top == HeapMin(open_set)
       IN  /\ top.node \notin closed_set
           /\ top.node = goal
           /\ open_set' = open_set \ {top}
           /\ closed_set' = closed_set \cup {top.node}
           /\ settled_mode' = (top.node :> top.mode) @@ settled_mode
           /\ astar_result' = [kind |-> "path", path |-> top.path]
    /\ astar_pc' = "returned"
    /\ UNCHANGED <<edges, start, goal, preference, allowed_modes, g_score,
                   f_score, pushed>>
    /\ UNCHANGED cost_vars
    /\ UNCHANGED find_vars
    /\ UNCHANGED ext_vars

\* one iteration of the while loop that expands the popped node
AstarExpand ==
    /\ astar_pc = "loop"
    /\ open_set # {}
    /\ LET top == HeapMin(open_set)
           closed == closed_set \cup {top.node}
           cands == Candidates(edges, top.node, closed, allowed_modes, 1)
           st == Relax(cands, 1, top.node, top.path, top.mode,
                       [g |-> g_score, f |-> f_score,
                        open |-> open_set \ {top}, pushed |-> pushed])
       IN  /\ top.node \notin closed_set
           /\ top.node # goal
           /\ closed_set' = closed
           /\ settled_mode' = (top.node :> top.mode) @@ settled_mode
           /\ g_score' = st.g
           /\ f_score' = st.f
           /\ open_set' = st.open
           /\ pushed' = st.pushed
    /\ UNCHANGED <<edges, start, goal, preference, allowed_modes, astar_pc,
                   astar_result>>
    /\ UNCHANGED cost_vars
    /\ UNCHANGED find_vars
    /\ UNCHANGED ext_vars

\* the while loop ends with an empty heap: "return None"
AstarNoPath ==
    /\ astar_pc = "loop"
    /\ open_set = {}
    /\ astar_result' = [kind |-> "none", path |-> <<>>]
    /\ astar_pc' = "returned"
    /\ UNCHANGED <<edges, start, goal, preference, allowed_modes, open_set,
                   closed_set, g_score, f_score, pushed, settled_mode>>
    /\ UNCHANGED cost_vars
    /\ UNCHANGED find_vars
    /\ UNCHANGED ext_vars

NextAstar ==
    \/ AstarBegin
    \/ AstarSkipClosed
    \/ AstarReachGoal
    \/ AstarExpand
    \/ AstarNoPath

SpecAstar == InitAstar /\ [][NextAstar]_vars

(***************************************************************************)
(* Reference: the cheapest walk over (node, entry-mode) states             *)
(***************************************************************************)
\* the (edge, mode) moves a traveller at node n may take
Moves(n) ==
    {<<e, m>> \in edges \X TransportMode :
        /\ e.from_node = n
        /\ m \in SeqToSet(e.allowed_modes) \cap SeqToSet(allowed_modes)}

SearchStates == Nodes \X (SeqToSet(allowed_modes) \cup {None})

SetMin(S) == CHOOSE x \in S : \A y \in S : x <= y

\* one Bellman-Ford round towards the goal; -1 stands for "no walk"
BestStep(D) ==
    [s \in SearchStates |->
        IF s[1] = goal THEN 0
        ELSE LET opts == {cost_function(preference, mv[1], mv[2], s[2])
                             + D[<<mv[1].to_node, mv[2]>>] :
                          mv \in {x \in Moves(s[1]) : D[<<x[1].to_node, x[2]>>] # -1}}
             IN  IF opts = {} THEN -1 ELSE SetMin(opts)]

RECURSIVE BestIterate(_, _)
BestIterate(D, k) == IF k = 0 THEN D ELSE BestIterate(BestStep(D), k - 1)

\* BestCost[<<n, p>>]: least total effective cost of a walk from n to the
\* goal when n was entered in mode p, over permitted and allowed modes
BestCost ==
    BestIterate([s \in SearchStates |-> IF s[1] = goal THEN 0 ELSE -1],
                Cardinality(SearchStates))

\* total effective cost of a path as the search charges it
RECURSIVE PathCost(_, _, _)
PathCost(path, i, prev) ==
    IF i > Len(path) THEN 0
    ELSE LET edge == CHOOSE e \in edges :
                        e.from_node = path[i][1] /\ e.to_node = path[i][2]
         IN  cost_function(preference, edge, path[i][3], prev)
                + PathCost(path, i + 1, path[i][3])

(***************************************************************************)
(* Claims about the search                                                 *)
(***************************************************************************)
\* C5: whenever the search returns a path, its total effective cost is the
\* least over all start-to-goal walks using permitted and allowed modes.
C5_ReturnedPathOptimal ==
    (astar_pc = "returned" /\ astar_result.kind = "path") =>
        PathCost(astar_result.path, 1, None) = BestCost[<<start, None>>]

\* C6: (node, entry-mode) is the search state: when an expansion reaches
\* neighbour n in mode m and no arrival (n, m) was recorded before, the
\* arrival is recorded, whatever was recorded or settled for n in other
\* modes; and an entry popped for a node settled only in other modes is
\* expanded, not dropped.
C6_ModeArrivalsDistinct ==
    [][(astar_pc = "loop" /\ open_set # {}) =>
        LET top == HeapMin(open_set)
        IN  /\ (top.node \in closed_set) => settled_mode[top.node] = top.mode
            /\ (top.node \notin closed_set /\ top.node # goal) =>
                  \A mv \in Moves(top.node) : <<mv[1].to_node, mv[2]>> \in pushed'
      ]_vars

\* C7: for every node the search has scored, the heuristic part of f_score
\* is at most the least total effective cost from that node to the goal.
C7_HeuristicAdmissible ==
    \A n \in DOMAIN f_score :
        BestCost[<<n, None>>] # -1 =>
            f_score[n] - g_score[n] <= BestCost[<<n, None>>]

\* no edge reachable from start shares a mode with the caller
RECURSIVE ReachableFrom(_, _)
ReachableFrom(S, k) ==
    IF k = 0 THEN S
    ELSE ReachableFrom(S \cup {e.to_node : e \in {x \in edges : x.from_node \in S}}, k - 1)

NoUsableEdge ==
    \A e \in edges :
        e.from_node \in ReachableFrom({start}, Cardinality(Nodes)) =>
            SeqToSet(e.allowed_modes) \cap SeqToSet(allowed_modes) = {}

\* C8: with no usable edge reachable from start and start # goal the search
\* pushes nothing, empties its heap and returns "no path".
C8_NoUsableEdgeNoPath ==
    (NoUsableEdge /\ start # goal) =>
        /\ pushed = {}
        /\ astar_pc = "returned" => astar_result.kind = "none"
        /\ (astar_pc = "loop" /\ closed_set # {}) => open_set = {}

C8_Witness ==
    /\ NoUsableEdge
    /\ start # goal
    /\ \E e \in edges : e.from_node = start /\ e.allowed_modes = <<"walking">>
    /\ \A e \in edges : e.allowed_modes = <<"walking">>
    /\ allowed_modes = <<"car">>
    /\ astar_pc = "returned"
    /\ astar_result.kind = "none"


(***************************************************************************)
(* routing_engine.py: RoutingEngine.find_routes, one call.                 *)
(*                                                                         *)
(* A fetch has one of three outcomes: "ok" (the provider answered),        *)
(* "fail" (the client's own except clause returned its neutral value) and  *)
(* "hang" (the provider never answers).  A value of the real-time picture  *)
(* is "data" (a fetched non-empty list), "empty" ([]), a weather report,   *)
(* None, or "absent" (the key was never set).                              *)
(***************************************************************************)
MaxPrefs == 4
MaxModes == 2
MaxGoogleRoutes == 3
MaxBadFetches == 1

RoutePreferenceOrder ==
    <<"fastest", "safest", "energy_efficient", "scenic", "healthy",
      "cheapest">>

\* the preference lists of a request: the first k preferences of the enum
RequestPreferences ==
    {SubSeq(RoutePreferenceOrder, 1, k) : k \in 0..MaxPrefs}

RequestModes == {"walking", "bus", "skytrain"}

SeqsUpTo(S, n) == UNION {[1..k -> S] : k \in 0..n}

Requests ==
    [preferences : RequestPreferences,
     transport_modes : SeqsUpTo(RequestModes, MaxModes),
     coords_finite : BOOLEAN]

Signals ==
    {"weather", "traffic", "transit_origin", "transit_destination",
     "lime_origin", "lime_destination", "road_closures", "construction"}

TransLinkFeeds == {"translink_trip_updates", "translink_service_alerts"}

Outcomes == {"ok", "fail", "hang"}

BadCount(f) == Cardinality({s \in DOMAIN f : f[s] # "ok"})

\* get_nearby_stops does no I/O and returns [] at once
FetchOutcomes ==
    {f \in [Signals -> Outcomes] :
        /\ f["transit_origin"] = "ok"
        /\ f["transit_destination"] = "ok"
        /\ BadCount(f) <= MaxBadFetches}

\* WeatherData: condition and wind speed in km/h
MakeWeather(condition, wind_speed) ==
    [condition |-> condition, wind_speed |-> wind_speed]

\* the "weather" entry when it is None
NoWeather == MakeWeather(None, 0)

fetched(s) ==
    IF s = "weather" THEN MakeWeather("rain", 10)
    ELSE IF s \in {"transit_origin", "transit_destination"} THEN "empty"
    ELSE "data"

\* what a client returns from its own except clause
neutral(s) == IF s = "weather" THEN MakeWeather("clear", 10) ELSE "empty"

timeout_data ==
    [s \in Signals \cup TransLinkFeeds |->
        IF s = "weather" THEN NoWeather
        ELSE IF s \in TransLinkFeeds THEN "absent" ELSE "empty"]

get_all_data(fr) ==
    [s \in Signals \cup TransLinkFeeds |->
        IF s \in TransLinkFeeds THEN "absent"
        ELSE IF fr[s] = "ok" THEN fetched(s) ELSE neutral(s)]

\* asyncio.wait_for(get_all_data(...), timeout=3.0)
wait_for_all_data(fr) ==
    IF \E s \in Signals : fr[s] = "hang" THEN timeout_data
    ELSE get_all_data(fr)

\* asyncio.wait_for(asyncio.gather(trip updates, service alerts), 2.0)
wait_for_translink(tl, data) ==
    IF \E s \in TransLinkFeeds : tl[s] = "hang" THEN data
    ELSE [s \in Signals \cup TransLinkFeeds |->
            IF s \in TransLinkFeeds
            THEN (IF tl[s] = "ok" THEN "data" ELSE "empty")
            ELSE data[s]]

\* the wind adjustment written as an addition of 0.2
calculate_weather_penalty_additive(weather) ==
    LET base_penalty ==
            CASE weather.condition = "rain" -> 130
              [] weather.condition = "snow" -> 150
              [] weather.condition = "fog" -> 120
              [] weather.condition = "extreme" -> 200
              [] OTHER -> 100
    IN  IF weather.wind_speed > 30 THEN base_penalty + 20 ELSE base_penalty

\* percent: 1.3 is 130; "base_penalty *= 1.2" is exact in percent
calculate_weather_penalty(weather) ==
    LET base_penalty ==
            CASE weather.condition = "rain" -> 130
              [] weather.condition = "snow" -> 150
              [] weather.condition = "fog" -> 120
              [] weather.condition = "extreme" -> 200
              [] OTHER -> 100
    IN  IF weather.wind_speed > 30
        THEN (base_penalty * 12) \div 10
        ELSE base_penalty

update_graph_with_real_time_data(data, penalty) ==
    IF data["weather"] # NoWeather
    THEN calculate_weather_penalty(data["weather"])
    ELSE penalty

mode_mapping(transport_mode) ==
    CASE transport_mode = "walking" -> "walking"
      [] transport_mode = "biking" -> "bicycling"
      [] transport_mode = "car" -> "driving"
      [] transport_mode = "bus" -> "transit"
      [] transport_mode = "skytrain" -> "transit"
      [] transport_mode = "scooter" -> "walking"
      [] OTHER -> "driving"

route_preference(req) ==
    IF Len(req.preferences) > 0 THEN req.preferences[1] ELSE "fastest"

MakeRoute(source, idx, pref) ==
    [source |-> source, idx |-> idx, preference |-> pref]

Take(s, n) == SubSeq(s, 1, IF Len(s) < n THEN Len(s) ELSE n)

SelectNotIn(order, prefs) ==
    SelectSeq(order, LAMBDA p : \A i \in 1..Len(prefs) : prefs[i] # p)

\* demo.py: int() of a NaN distance, or sin() of an infinite coordinate
demo_raises(req) == ~req.coords_finite

generate_demo_routes(req) ==
    LET demo_routes ==
            [i \in 1..Len(req.preferences) |->
                MakeRoute("demo", i, req.preferences[i])]
        alt_preferences == SelectNotIn(RoutePreferenceOrder, req.preferences)
        demo_alternatives ==
            IF Len(demo_routes) < 3
            THEN [i \in 1..Len(Take(alt_preferences, 2)) |->
                    MakeRoute("demo_alt", i, alt_preferences[i])]
            ELSE <<>>
    IN  [kind |-> "demo", routes |-> demo_routes,
         alternatives |-> demo_alternatives]

NoResponse == [kind |-> "pending", routes |-> <<>>, alternatives |-> <<>>]

\* the outer "except Exception" of find_routes: answer with demo routes
handle_internal_error(req) ==
    IF demo_raises(req)
    THEN [pc |-> "raised", response |-> NoResponse]
    ELSE [pc |-> "done", response |-> generate_demo_routes(req)]

InitFind ==
    /\ CostIdle
    /\ AstarIdle
    /\ ExtIdle
    /\ request \in Requests
    /\ keys_ok \in BOOLEAN
    /\ translink_key \in BOOLEAN
    /\ fr_pc = "call"
    /\ fetch_results = <<>>
    /\ tl_results = <<>>
    /\ real_time_data = <<>>
    /\ graph_weather_penalty = 100
    /\ mode_idx = 0
    /\ processed_modes = {}
    /\ routes = <<>>
    /\ alternatives = <<>>
    /\ gtfs_loaded = FALSE
    /\ gtfs_loading_started = FALSE
    /\ response = NoResponse

\* lines 85-88: configuration missing, answer with demo routes; an
\* exception of the generator lands in the outer handler
DemoMode ==
    /\ fr_pc = "call"
    /\ ~keys_ok
    /\ IF demo_raises(request)
       THEN /\ fr_pc' = handle_internal_error(request).pc
            /\ response' = handle_internal_error(request).response
       ELSE /\ fr_pc' = "done"
            /\ response' = generate_demo_routes(request)
    /\ UNCHANGED <<request, keys_ok, translink_key, fetch_results,
                   tl_results, real_time_data, graph_weather_penalty,
                   mode_idx, processed_modes, routes, alternatives,
                   gtfs_loaded, gtfs_loading_started>>
    /\ UNCHANGED cost_vars
    /\ UNCHANGED astar_vars
    /\ UNCHANGED ext_vars

\* lines 92-108: the real-time batch under its 3 s limit
FetchAllData ==
    /\ fr_pc = "call"
    /\ keys_ok
    /\ \E fr \in FetchOutcomes :
        /\ fetch_results' = fr
        /\ real_time_data' = wait_for_all_data(fr)
    /\ fr_pc' = "translink"
    /\ UNCHANGED <<request, keys_ok, translink_key, tl_results,
                   graph_weather_penalty, mode_idx, processed_modes, routes,
                   alternatives, gtfs_loaded, gtfs_loading_started,
                   response>>
    /\ UNCHANGED cost_vars
    /\ UNCHANGED astar_vars
    /\ UNCHANGED ext_vars

\* lines 110-141, transit key configured: both feeds under the 2 s limit,
\* then the graph update
FetchTransLink ==
    /\ fr_pc = "translink"
    /\ translink_key
    /\ \E tl \in [TransLinkFeeds -> Outcomes] :
        /\ BadCount(tl) + BadCount(fetch_results) <= MaxBadFetches
        /\ tl_results' = tl
        /\ real_time_data' = wait_for_translink(tl, real_time_data)
        /\ graph_weather_penalty' =
             update_graph_with_real_time_data(
                wait_for_translink(tl, real_time_data),
                graph_weather_penalty)
    /\ fr_pc' = "modes"
    /\ mode_idx' = 1
    /\ UNCHANGED <<request, keys_ok, translink_key, fetch_results,
                   processed_modes, routes, alternatives, gtfs_loaded,
                   gtfs_loading_started, response>>
    /\ UNCHANGED cost_vars
    /\ UNCHANGED astar_vars
    /\ UNCHANGED ext_vars

\* lines 110-141, no transit key: only the graph update
SkipTransLink ==
    /\ fr_pc = "translink"
    /\ ~translink_key
    /\ graph_weather_penalty' =
         update_graph_with_real_time_data(real_time_data,
                                          graph_weather_penalty)
    /\ fr_pc' = "modes"
    /\ mode_idx' = 1
    /\ UNCHANGED <<request, keys_ok, translink_key, fetch_results,
                   tl_results, real_time_data, processed_modes, routes,
                   alternatives, gtfs_loaded, gtfs_loading_started,
                   response>>
    /\ UNCHANGED cost_vars
    /\ UNCHANGED astar_vars
    /\ UNCHANGED ext_vars

\* TransLinkClient.ensure_gtfs_loaded; load is the outcome of the static
\* schedule load run in the executor, which has no time limit
ensure_gtfs_loaded(loaded, started, load) ==
    IF loaded
    THEN [loaded |-> TRUE, started |-> started, blocked |-> FALSE]
    ELSE IF started
    THEN [loaded |-> FALSE, started |-> TRUE, blocked |-> FALSE]
    ELSE [loaded |-> (load = "ok"), started |-> TRUE,
          blocked |-> (load = "hang")]

\* _convert_google_route_to_route reaches ensure_gtfs_loaded for a transit
\* step with a line short name when trip updates were fetched
needs_gtfs(google_mode, short_name, data) ==
    /\ google_mode = "transit"
    /\ short_name
    /\ data["translink_trip_updates"] = "data"

NewAlternatives(google_mode, n_alt, pref) ==
    [i \in 1..n_alt |-> MakeRoute(google_mode, i, pref)]

ModesDone == mode_idx > Len(request.transport_modes)

NeedsFallback == routes = <<>> /\ Len(request.transport_modes) > 0

\* lines 162-172: the directions mode of this transport mode was queried
\* already
SkipProcessedMode ==
    /\ fr_pc = "modes"
    /\ ~ModesDone
    /\ mode_mapping(request.transport_modes[mode_idx]) \in processed_modes
    /\ mode_idx' = mode_idx + 1
    /\ UNCHANGED <<request, keys_ok, translink_key, fr_pc, fetch_results,
                   tl_results, real_time_data, graph_weather_penalty,
                   processed_modes, routes, alternatives, gtfs_loaded,
                   gtfs_loading_started, response>>
    /\ UNCHANGED cost_vars
    /\ UNCHANGED astar_vars
    /\ UNCHANGED ext_vars

\* lines 174-256: one iteration of the mode loop.  The directions call is
\* under its 5 s limit; a hang, a failure or an empty answer all continue
\* with the next mode.  n is the number of routes in the answer, route 0
\* becomes a primary route and the others alternatives, each unless its
\* conversion returns None.
ProcessMode ==
    /\ fr_pc = "modes"
    /\ ~ModesDone
    /\ LET google_mode == mode_mapping(request.transport_modes[mode_idx])
       IN
       /\ google_mode \notin processed_modes
       /\ processed_modes' = processed_modes \cup {google_mode}
       /\ \E directions \in Outcomes, n \in 0..MaxGoogleRoutes,
             primary_ok \in BOOLEAN, n_alt \in 0..MaxGoogleRoutes,
             short_name \in BOOLEAN, load \in Outcomes :
            /\ directions # "ok" => n = 0
            /\ n = 0 => ~primary_ok /\ n_alt = 0 /\ ~short_name
            /\ n > 0 => n_alt <= n - 1
            /\ LET g == IF needs_gtfs(google_mode, short_name,
                                      real_time_data)
                        THEN ensure_gtfs_loaded(gtfs_loaded,
                                                gtfs_loading_started, load)
                        ELSE [loaded |-> gtfs_loaded,
                              started |-> gtfs_loading_started,
                              blocked |-> FALSE]
               IN
               /\ gtfs_loaded' = g.loaded
               /\ gtfs_loading_started' = g.started
               /\ IF g.blocked
                  THEN /\ fr_pc' = "await_gtfs_load"
                       /\ UNCHANGED <<mode_idx, routes, alternatives>>
                  ELSE /\ fr_pc' = "modes"
                       /\ mode_idx' = mode_idx + 1
                       /\ routes' =
                            IF primary_ok
                            THEN Append(routes,
                                        MakeRoute(google_mode, 0,
                                            route_preference(request)))
                            ELSE routes
                       /\ alternatives' =
                            alternatives \o
                            NewAlternatives(google_mode, n_alt,
                                            route_preference(request))
    /\ UNCHANGED <<request, keys_ok, translink_key, fetch_results,
                   tl_results, real_time_data, graph_weather_penalty,
                   response>>
    /\ UNCHANGED cost_vars
    /\ UNCHANGED astar_vars
    /\ UNCHANGED ext_vars

\* lines 259-284: no primary route was found; query the first requested
\* mode once more.  This call has no wait_for: a hang ends at the HTTP
\* client's own limit and get_directions returns None.
Fallback ==
    /\ fr_pc = "modes"
    /\ ModesDone
    /\ NeedsFallback
    /\ LET google_mode == mode_mapping(request.transport_modes[1])
       IN
       \E directions \in Outcomes, route_ok \in BOOLEAN,
          short_name \in BOOLEAN, load \in Outcomes :
            /\ directions # "ok" => ~route_ok /\ ~short_name
            /\ LET g == IF needs_gtfs(google_mode, short_name,
                                      real_time_data)
                        THEN ensure_gtfs_loaded(gtfs_loaded,
                                                gtfs_loading_started, load)
                        ELSE [loaded |-> gtfs_loaded,
                              started |-> gtfs_loading_started,
                              blocked |-> FALSE]
               IN
               /\ gtfs_loaded' = g.loaded
               /\ gtfs_loading_started' = g.started
               /\ IF g.blocked
                  THEN /\ fr_pc' = "await_gtfs_load"
                       /\ UNCHANGED routes
                  ELSE /\ fr_pc' = "respond"
                       /\ routes' =
                            IF route_ok
                            THEN <<MakeRoute(google_mode, 0,
                                             route_preference(request))>>
                            ELSE routes
    /\ UNCHANGED <<request, keys_ok, translink_key, fetch_results,
                   tl_results, real_time_data, graph_weather_penalty,
                   mode_idx, processed_modes, alternatives, response>>
    /\ UNCHANGED cost_vars
    /\ UNCHANGED astar_vars
    /\ UNCHANGED ext_vars

ReadyToRespond ==
    \/ fr_pc = "respond"
    \/ fr_pc = "modes" /\ ModesDone /\ ~NeedsFallback

\* _sort_routes_by_preferences: the scores come from the routes' data, so
\* any order can result; without preferences the list is left as it is
sort_routes_by_preferences(rs, prefs) ==
    IF Len(prefs) = 0 THEN {rs}
    ELSE {[i \in 1..Len(rs) |-> rs[p[i]]] : p \in Permutations(1..Len(rs))}

\* lines 286-296: sort, truncate, return
Respond ==
    /\ ReadyToRespond
    /\ \E sorted \in sort_routes_by_preferences(routes,
                                                request.preferences) :
        /\ routes' = sorted
        /\ response' = [kind |-> "live", routes |-> Take(sorted, 3),
                        alternatives |-> Take(alternatives, 3)]
    /\ fr_pc' = "done"
    /\ UNCHANGED <<request, keys_ok, translink_key, fetch_results,
                   tl_results, real_time_data, graph_weather_penalty,
                   mode_idx, processed_modes, alternatives, gtfs_loaded,
                   gtfs_loading_started>>
    /\ UNCHANGED cost_vars
    /\ UNCHANGED astar_vars
    /\ UNCHANGED ext_vars

\* lines 298-303: a statement of the final assembly raises and the outer
\* handler answers with demo routes
InternalError ==
    /\ ReadyToRespond
    /\ fr_pc' = handle_internal_error(request).pc
    /\ response' = handle_internal_error(request).response
    /\ UNCHANGED <<request, keys_ok, translink_key, fetch_results,
                   tl_results, real_time_data, graph_weather_penalty,
                   mode_idx, processed_modes, routes, alternatives,
                   gtfs_loaded, gtfs_loading_started>>
    /\ UNCHANGED cost_vars
    /\ UNCHANGED astar_vars
    /\ UNCHANGED ext_vars

NextFind ==
    \/ DemoMode
    \/ FetchAllData
    \/ FetchTransLink
    \/ SkipTransLink
    \/ SkipProcessedMode
    \/ ProcessMode
    \/ Fallback
    \/ Respond
    \/ InternalError

SpecFind == InitFind /\ [][NextFind]_vars


\* C1: find_routes never lets an exception reach its caller: whatever the
\* request and the upstream outcomes, the call does not end by raising.
C1_NeverRaises == fr_pc # "raised"

\* C2: find_routes always eventually returns: a call that has not returned
\* can always take its next step, every wait being bounded by a timeout
\* (the call has finitely many steps, so it then returns).
C2_AlwaysReturns ==
    fr_pc \in {"call", "translink", "modes", "respond", "await_gtfs_load"}
        => ENABLED NextFind

\* C3: in the real-time picture of a request every signal whose fetch
\* succeeded holds its fetched value, whatever happened to the other
\* fetches of the same request.
C3_OnlyFailedSignalDegrades ==
    /\ (keys_ok /\ fr_pc \notin {"idle", "call"}) =>
          \A s \in Signals :
             fetch_results[s] = "ok" => real_time_data[s] = fetched(s)
    /\ (keys_ok /\ translink_key
            /\ fr_pc \notin {"idle", "call", "translink"}) =>
          \A s \in TransLinkFeeds :
             tl_results[s] = "ok" => real_time_data[s] = "data"

\* C4: every response handed to the caller holds at most 3 primary routes
\* and at most 3 alternative routes, on the live path, after an internal
\* error and when the configuration is missing.
C4_AtMostThreeRoutes ==
    fr_pc = "done" =>
        /\ Len(response.routes) <= 3
        /\ Len(response.alternatives) <= 3

(***************************************************************************)
(* api_clients.py: TransLinkClient.get_parsed_trip_updates,                *)
(* get_parsed_vehicle_positions and get_parsed_service_alerts.             *)
(*                                                                         *)
(* The three methods share one _cache_timestamp.  A call checks its cache  *)
(* and, on a miss, awaits the HTTP fetch; other coroutines run during that *)
(* await.  The clock advances in steps of 10 seconds; _cache_timestamp is  *)
(* <<>> while it is None and <<t>> once set.                               *)
(***************************************************************************)
MaxCallers == 2
MaxClock == 40

cache_ttl == 30

Feeds == {"trip_updates", "vehicle_positions", "service_alerts"}

Callers == 1..MaxCallers

\* a cache attribute that is still None
NoList == [items |-> "none", decoded_at |-> 0]

\* no call has returned yet
NoReturn == [feed |-> None, from_cache |-> FALSE, items |-> "none", age |-> 0]

\* "if self._x_cache and self._cache_timestamp: ... cache_age < _cache_ttl";
\* an empty list is falsy
cache_is_fresh(f) ==
    /\ feed_cache[f].items = "data"
    /\ cache_timestamp # <<>>
    /\ now - cache_timestamp[1] < cache_ttl

InitCache ==
    /\ NotCacheIdle
    /\ now = 0
    /\ feed_cache = [f \in Feeds |-> NoList]
    /\ cache_timestamp = <<>>
    /\ caller_feed = [c \in Callers |-> None]
    /\ last_return = NoReturn

\* the call returns the cached list at once
ReturnCached(c, f) ==
    /\ caller_feed[c] = None
    /\ cache_is_fresh(f)
    /\ last_return' = [feed |-> f, from_cache |-> TRUE,
                       items |-> feed_cache[f].items,
                       age |-> now - feed_cache[f].decoded_at]
    /\ UNCHANGED <<now, feed_cache, cache_timestamp, caller_feed>>
    /\ UNCHANGED not_cache_vars

\* cache miss: the call starts the fetch and is suspended at the await
StartFetch(c, f) ==
    /\ caller_feed[c] = None
    /\ ~cache_is_fresh(f)
    /\ caller_feed' = [caller_feed EXCEPT ![c] = f]
    /\ UNCHANGED <<now, feed_cache, cache_timestamp, last_return>>
    /\ UNCHANGED not_cache_vars

\* the fetch returned no bytes (no key, HTTP error): the call returns []
\* and stores nothing
FetchFailed(c) ==
    /\ caller_feed[c] # None
    /\ caller_feed' = [caller_feed EXCEPT ![c] = None]
    /\ last_return' = [feed |-> caller_feed[c], from_cache |-> FALSE,
                       items |-> "empty", age |-> 0]
    /\ UNCHANGED <<now, feed_cache, cache_timestamp>>
    /\ UNCHANGED not_cache_vars

\* the fetch returned bytes: decode them, store the list and the shared
\* timestamp, return the list (the decoder gives [] for a feed it cannot
\* read)
FetchDecoded(c) ==
    /\ caller_feed[c] # None
    /\ \E parsed \in {"data", "empty"} :
        /\ feed_cache' = [feed_cache EXCEPT ![caller_feed[c]] =
                            [items |-> parsed, decoded_at |-> now]]
        /\ last_return' = [feed |-> caller_feed[c], from_cache |-> FALSE,
                           items |-> parsed, age |-> 0]
    /\ cache_timestamp' = <<now>>
    /\ caller_feed' = [caller_feed EXCEPT ![c] = None]
    /\ UNCHANGED now
    /\ UNCHANGED not_cache_vars

Tick ==
    /\ now + 10 <= MaxClock
    /\ now' = now + 10
    /\ UNCHANGED <<feed_cache, cache_timestamp, caller_feed, last_return>>
    /\ UNCHANGED not_cache_vars

NextCache ==
    \/ \E c \in Callers, f \in Feeds : ReturnCached(c, f)
    \/ \E c \in Callers, f \in Feeds : StartFetch(c, f)
    \/ \E c \in Callers : FetchFailed(c)
    \/ \E c \in Callers : FetchDecoded(c)
    \/ Tick

SpecCache == InitCache /\ [][NextCache]_vars

\* C11: concurrent callers of get_parsed_trip_updates that find no fresh
\* cached value do not each fetch and decode the feed: at most one of them
\* is fetching at any time, the others wait for its value.
C11_SingleDecodePerWindow ==
    Cardinality({c \in DOMAIN caller_feed :
                    caller_feed[c] = "trip_updates"}) <= 1

\* C12: a list returned from the cache by any of the three methods was
\* decoded from its own feed less than 30 seconds before the call.
C12_CachedValueFresh ==
    last_return.from_cache
        => last_return.age < cache_ttl

(***************************************************************************)
(* Static schedule tables: TransLinkClient.ensure_gtfs_loaded              *)
(* (api_clients.py), GTFSStaticParser.load and the lazy self-load of its   *)
(* lookup methods (gtfs_static.py), get_gtfs_static (gtfs_parser.py).      *)
(*                                                                         *)
(* The process holds two parser objects: the one TransLinkClient creates   *)
(* ("client") and the one get_gtfs_static creates on first use ("module"). *)
(* Every lookup on the client's parser is preceded by ensure_gtfs_loaded;  *)
(* GTFSRTParser.get_stop_arrival_time goes through get_gtfs_static.        *)
(***************************************************************************)
MaxLoadRuns == 3

Parsers == {"client", "module"}

InitLoad ==
    /\ NotLoadIdle
    /\ ld_pc = [c \in Callers |-> "idle"]
    /\ lock_holder = 0
    /\ loading_started = FALSE
    /\ parser_loaded = [p \in Parsers |-> FALSE]
    /\ module_parser = FALSE
    /\ load_runs = 0

\* ensure_gtfs_loaded, fast path: already loaded
EnsureFastPath(c) ==
    /\ ld_pc[c] = "idle"
    /\ parser_loaded["client"]
    /\ ld_pc' = [ld_pc EXCEPT ![c] = "ensured"]
    /\ UNCHANGED <<lock_holder, loading_started, parser_loaded,
                   module_parser, load_runs>>
    /\ UNCHANGED not_load_vars

\* ensure_gtfs_loaded: not loaded, go for the lock
EnsureWantLock(c) ==
    /\ ld_pc[c] = "idle"
    /\ ~parser_loaded["client"]
    /\ ld_pc' = [ld_pc EXCEPT ![c] = "want_lock"]
    /\ UNCHANGED <<lock_holder, loading_started, parser_loaded,
                   module_parser, load_runs>>
    /\ UNCHANGED not_load_vars

\* lock acquired; loaded meanwhile, or a load was started before: return
\* without loading
EnsureNoLoad(c) ==
    /\ ld_pc[c] = "want_lock"
    /\ lock_holder = 0
    /\ parser_loaded["client"] \/ loading_started
    /\ ld_pc' = [ld_pc EXCEPT ![c] = "ensured"]
    /\ UNCHANGED <<lock_holder, loading_started, parser_loaded,
                   module_parser, load_runs>>
    /\ UNCHANGED not_load_vars

\* lock acquired, first load: hand load() to the executor and await it
EnsureStartLoad(c) ==
    /\ ld_pc[c] = "want_lock"
    /\ lock_holder = 0
    /\ ~parser_loaded["client"]
    /\ ~loading_started
    /\ load_runs < MaxLoadRuns
    /\ lock_holder' = c
    /\ loading_started' = TRUE
    /\ load_runs' = load_runs + 1
    /\ ld_pc' = [ld_pc EXCEPT ![c] = "loading"]
    /\ UNCHANGED <<parser_loaded, module_parser>>
    /\ UNCHANGED not_load_vars

\* the executor's load() returns True (tables read) or False (directory
\* missing, read error); the lock is released
EnsureLoadDone(c) ==
    /\ ld_pc[c] = "loading"
    /\ \E ok \in BOOLEAN :
        parser_loaded' = [parser_loaded EXCEPT !["client"] = ok]
    /\ lock_holder' = 0
    /\ ld_pc' = [ld_pc EXCEPT ![c] = "ensured"]
    /\ UNCHANGED <<loading_started, module_parser, load_runs>>
    /\ UNCHANGED not_load_vars

\* a lookup method of a parser: "if not self._loaded: self.load()"
lazy_self_load(p, ok) ==
    IF parser_loaded[p]
    THEN [loaded |-> parser_loaded, runs |-> load_runs]
    ELSE [loaded |-> [parser_loaded EXCEPT ![p] = ok],
          runs |-> load_runs + 1]

\* the lookup on the client's parser that follows ensure_gtfs_loaded
ClientLookup(c) ==
    /\ ld_pc[c] = "ensured"
    /\ parser_loaded["client"] \/ load_runs < MaxLoadRuns
    /\ \E ok \in BOOLEAN :
        /\ parser_loaded' = lazy_self_load("client", ok).loaded
        /\ load_runs' = lazy_self_load("client", ok).runs
    /\ ld_pc' = [ld_pc EXCEPT ![c] = "idle"]
    /\ UNCHANGED <<lock_holder, loading_started, module_parser>>
    /\ UNCHANGED not_load_vars

\* get_gtfs_static, first use: create the module-level parser and load it
AccessorCreate(c) ==
    /\ ld_pc[c] = "idle"
    /\ ~module_parser
    /\ load_runs < MaxLoadRuns
    /\ module_parser' = TRUE
    /\ \E ok \in BOOLEAN :
        parser_loaded' = [parser_loaded EXCEPT !["module"] = ok]
    /\ load_runs' = load_runs + 1
    /\ UNCHANGED <<ld_pc, lock_holder, loading_started>>
    /\ UNCHANGED not_load_vars

\* get_gtfs_static, later use, and the lookup on the module-level parser
AccessorLookup(c) ==
    /\ ld_pc[c] = "idle"
    /\ module_parser
    /\ parser_loaded["module"] \/ load_runs < MaxLoadRuns
    /\ \E ok \in BOOLEAN :
        /\ parser_loaded' = lazy_self_load("module", ok).loaded
        /\ load_runs' = lazy_self_load("module", ok).runs
    /\ UNCHANGED <<ld_pc, lock_holder, loading_started, module_parser>>
    /\ UNCHANGED not_load_vars

NextLoad ==
    \/ \E c \in Callers : EnsureFastPath(c)
    \/ \E c \in Callers : EnsureWantLock(c)
    \/ \E c \in Callers : EnsureNoLoad(c)
    \/ \E c \in Callers : EnsureStartLoad(c)
    \/ \E c \in Callers : EnsureLoadDone(c)
    \/ \E c \in Callers : ClientLookup(c)
    \/ \E c \in Callers : AccessorCreate(c)
    \/ \E c \in Callers : AccessorLookup(c)

SpecLoad == InitLoad /\ [][NextLoad]_vars

\* C13: the static schedule tables are loaded at most once per process:
\* whatever the interleaving of callers of ensure_gtfs_loaded, of the
\* lookup methods and of the module-level accessor, the load routine runs a
\* single time.
C13_LoadRunsOnce == load_runs <= 1

(***************************************************************************)
(* routing_engine.py: RoutingEngine._update_graph_with_real_time_data and  *)
(* its copy routing/realtime_integration.py:                               *)
(* update_graph_with_real_time_data, applied request after request to the  *)
(* one graph the engine holds.  current_traffic_speed is <<>> while None   *)
(* and <<v>> once set.                                                     *)
(***************************************************************************)
MaxFusions == 2
MaxTraffic == 1

WeatherCondition == {"clear", "rain", "snow", "fog", "wind", "extreme"}

WindSpeeds == {10, 30, 40}

FusionEdgeIds == {"e1", "e2"}

\* TrafficData entries; "e9" is an edge id the graph does not have
TrafficRecords ==
    [edge_id : FusionEdgeIds \cup {"e9"}, current_speed : {20, 40}]

FusionData ==
    [weather : {MakeWeather(c, w) : c \in WeatherCondition, w \in WindSpeeds}
                  \cup {NoWeather},
     traffic : SeqsUpTo(TrafficRecords, MaxTraffic)]

TrafficFor(traffic, e) ==
    {i \in 1..Len(traffic) : traffic[i].edge_id = e}

\* "for traffic in traffic_data: ... edge.current_traffic_speed = ..."
update_traffic_speed(traffic, e, speed) ==
    IF TrafficFor(traffic, e) = {} THEN speed
    ELSE LET last == CHOOSE i \in TrafficFor(traffic, e) :
                        \A j \in TrafficFor(traffic, e) : j <= i
         IN  <<traffic[last].current_speed>>

\* Edge defaults: weather_penalty 1.0, current_traffic_speed None
NeutralEdge == [weather_penalty |-> 100, current_traffic_speed |-> <<>>]

InitFusion ==
    /\ NotFusionIdle
    /\ fu_edges = [e \in FusionEdgeIds |-> NeutralEdge]
    /\ fu_data = [weather |-> NoWeather, traffic |-> <<>>]
    /\ fu_count = 0

\* one call of the update with the real-time data of the next request
Fuse ==
    /\ fu_count < MaxFusions
    /\ \E data \in FusionData :
        /\ fu_data' = data
        /\ fu_edges' =
             [e \in FusionEdgeIds |->
                [weather_penalty |->
                    update_graph_with_real_time_data(
                        data, fu_edges[e].weather_penalty),
                 current_traffic_speed |->
                    update_traffic_speed(data.traffic, e,
                        fu_edges[e].current_traffic_speed)]]
    /\ fu_count' = fu_count + 1
    /\ UNCHANGED not_fusion_vars

NextFusion == Fuse

SpecFusion == InitFusion /\ [][NextFusion]_vars

\* C14: after fusion for a request whose weather fetch failed or timed out,
\* every edge without a traffic signal in that request holds the neutral
\* values (weather penalty 1.0, no traffic speed), whatever an earlier
\* request left on it.
C14_NeutralAfterFailedFetch ==
    (fu_count > 0 /\ fu_data.weather \in {NoWeather, neutral("weather")})
        => \A e \in FusionEdgeIds :
              TrafficFor(fu_data.traffic, e) = {} => fu_edges[e] = NeutralEdge

\* C15: after fusion with a weather signal every edge carries the same
\* penalty: 1.3 rain, 1.5 snow, 1.2 fog, 2.0 extreme, 1.0 otherwise,
\* multiplied by 1.2 exactly when the wind is above 30 km/h (snow with
\* 40 km/h gives 1.8, fog with wind above 30 km/h gives 1.44).
C15_WeatherPenaltyUniform ==
    (fu_count > 0 /\ fu_data.weather # NoWeather) =>
        LET w == fu_data.weather
            base == CASE w.condition = "rain" -> 130
                      [] w.condition = "snow" -> 150
                      [] w.condition = "fog" -> 120
                      [] w.condition = "extreme" -> 200
                      [] OTHER -> 100
            factor == IF w.wind_speed > 30 THEN 120 ELSE 100
        IN  /\ \A e \in FusionEdgeIds :
                  fu_edges[e].weather_penalty = (base * factor) \div 100
            /\ (w = MakeWeather("snow", 40)) =>
                  \A e \in FusionEdgeIds : fu_edges[e].weather_penalty = 180
            /\ (w.condition = "fog" /\ w.wind_speed > 30) =>
                  \A e \in FusionEdgeIds : fu_edges[e].weather_penalty = 144

C15_Witness ==
    /\ fu_count > 0
    /\ fu_data.weather = MakeWeather("snow", 40)
    /\ \A e \in FusionEdgeIds : fu_edges[e].weather_penalty = 180

(***************************************************************************)
(* routing/closure_avoidance.py: filter_routes_with_closures.              *)
(*                                                                         *)
(* Points lie on one street and are given in metres along it, so the       *)
(* great-circle distance of two points is the absolute difference and the  *)
(* midpoint of a step is the mean of its end points.  A closure record is  *)
(* reduced to what the code extracts from it: its location (None when no   *)
(* coordinates can be read) and its severity.                              *)
(***************************************************************************)
MaxSteps == 2
MaxRoutes == 1
MaxClosures == 1

CLOSURE_PROXIMITY_THRESHOLD == 50

StreetPoints == {0, 60, 120}

haversine_distance(point1, point2) ==
    IF point1 >= point2 THEN point1 - point2 ELSE point2 - point1

ClosureSteps ==
    {s \in [start_point : StreetPoints, end_point : StreetPoints] :
        s.start_point <= s.end_point}

ClosureRoutes == UNION {[1..k -> ClosureSteps] : k \in 1..MaxSteps}

ClosureRouteLists ==
    UNION {{[i \in 1..k |-> [id |-> i, steps |-> sl[i]]] :
                sl \in [1..k -> ClosureRoutes]} : k \in 0..MaxRoutes}

\* location <<>> stands for a record without readable coordinates
ClosureRecords ==
    [location : {<<>>} \cup {<<p>> : p \in StreetPoints},
     severity : {"major", "minor"}]

ConstructionLists == {<<>>} \cup {<<c>> : c \in ClosureRecords}

extract_closure_location(closure) == closure.location

get_closure_severity(closure) == closure.severity

\* the proximity test with twice the threshold
step_passes_near_closure_wide(step, closure) ==
    LET closure_point == extract_closure_location(closure)
        threshold == 2 * CLOSURE_PROXIMITY_THRESHOLD
    IN  /\ closure_point # <<>>
        /\ LET midpoint == (step.start_point + step.end_point) \div 2
           IN  \/ haversine_distance(step.start_point, closure_point[1])
                     < threshold
               \/ haversine_distance(step.end_point, closure_point[1])
                     < threshold
               \/ haversine_distance(midpoint, closure_point[1]) < threshold

step_passes_near_closure(step, closure) ==
    LET closure_point == extract_closure_location(closure)
        threshold == CLOSURE_PROXIMITY_THRESHOLD
    IN  /\ closure_point # <<>>
        /\ LET midpoint == (step.start_point + step.end_point) \div 2
           IN  \/ haversine_distance(step.start_point, closure_point[1])
                     < threshold
               \/ haversine_distance(step.end_point, closure_point[1])
                     < threshold
               \/ haversine_distance(midpoint, closure_point[1]) < threshold

\* has_closure of route_passes_through_closures
route_passes_through_closures(route, all_closures, severity_filter) ==
    \E i \in 1..Len(all_closures) :
        /\ severity_filter = "major"
              => get_closure_severity(all_closures[i]) = "major"
        /\ \E j \in 1..Len(route.steps) :
              step_passes_near_closure(route.steps[j], all_closures[i])

filter_routes_with_closures(rs, closures, construction, filter_major_only) ==
    LET all_closures == closures \o construction
        severity_filter == IF filter_major_only THEN "major" ELSE None
        hit(r) == route_passes_through_closures(r, all_closures,
                                                severity_filter)
    IN  [valid_routes |-> SelectSeq(rs, LAMBDA r : ~hit(r)),
         filtered_routes |-> SelectSeq(rs, LAMBDA r : hit(r))]

InitClosure ==
    /\ NotClosureIdle
    /\ cl_routes \in ClosureRouteLists
    /\ cl_closures \in SeqsUpTo(ClosureRecords, MaxClosures)
    /\ cl_construction \in ConstructionLists
    /\ cl_filter_major_only \in BOOLEAN
    /\ cl_valid = <<>>
    /\ cl_filtered = <<>>
    /\ cl_called = FALSE

CallFilterClosures ==
    /\ ~cl_called
    /\ LET res == filter_routes_with_closures(cl_routes, cl_closures,
                      cl_construction, cl_filter_major_only)
       IN  /\ cl_valid' = res.valid_routes
           /\ cl_filtered' = res.filtered_routes
    /\ cl_called' = TRUE
    /\ UNCHANGED <<cl_routes, cl_closures, cl_construction,
                   cl_filter_major_only>>
    /\ UNCHANGED not_closure_vars

NextClosure == CallFilterClosures

SpecClosure == InitClosure /\ [][NextClosure]_vars

\* every point the proximity test looks at is more than 50 m away from
\* every closure and construction location
RouteClearOfClosures(route) ==
    \A i \in 1..Len(cl_closures \o cl_construction) :
        LET c == (cl_closures \o cl_construction)[i]
        IN  c.location # <<>> =>
              \A j \in 1..Len(route.steps) :
                 LET s == route.steps[j]
                     m == (s.start_point + s.end_point) \div 2
                 IN  /\ haversine_distance(s.start_point, c.location[1]) > 50
                     /\ haversine_distance(s.end_point, c.location[1]) > 50
                     /\ haversine_distance(m, c.location[1]) > 50

\* C16: closure filtering never removes a route all of whose steps have
\* start point, end point and midpoint more than 50 m from every closure
\* and construction location, whatever the severities and the strictness.
C16_ClearRouteKept ==
    cl_called =>
        \A i \in 1..Len(cl_routes) :
            RouteClearOfClosures(cl_routes[i]) =>
                /\ \E k \in 1..Len(cl_valid) : cl_valid[k] = cl_routes[i]
                /\ \A k \in 1..Len(cl_filtered) :
                      cl_filtered[k] # cl_routes[i]

C16_Witness ==
    /\ cl_called
    /\ ~cl_filter_major_only
    /\ Len(cl_closures) > 0
    /\ cl_closures[1].location # <<>>
    /\ Len(cl_routes) > 0
    /\ RouteClearOfClosures(cl_routes[1])
    /\ cl_valid = cl_routes

(***************************************************************************)
(* routing/translink_enhancements.py: filter_routes_by_delay_threshold,    *)
(* find_alternative_transit_routes and apply_translink_enhancements.       *)
(*                                                                         *)
(* A step is a walking step (transit_details None) or a transit step with  *)
(* the line's short name, its delay in minutes and whether a service alert *)
(* with a major effect is attached.  A route's id is its position in the   *)
(* candidate list.                                                         *)
(***************************************************************************)
MaxDelayRoutes == 5

WalkStep ==
    [transit |-> FALSE, short_name |-> "", delay_minutes |-> 0,
     alert |-> FALSE]

TransitStep(short_name, delay_minutes, alert) ==
    [transit |-> TRUE, short_name |-> short_name,
     delay_minutes |-> delay_minutes, alert |-> alert]

\* the step lists candidate routes are drawn from
DelayStepLists ==
    {<<TransitStep("99", 12, FALSE)>>,
     <<TransitStep("14", 10, FALSE)>>,
     <<WalkStep>>,
     <<TransitStep("7", 0, FALSE), TransitStep("99", 8, FALSE)>>,
     <<WalkStep, TransitStep("14", 0, TRUE)>>}

DelayRouteLists ==
    UNION {{[i \in 1..k |-> [id |-> i, steps |-> sl[i]]] :
                sl \in [1..k -> DelayStepLists]} : k \in 0..MaxDelayRoutes}

DelayThresholds == {5, 10}

RECURSIVE MaxDelayFrom(_, _, _)
MaxDelayFrom(steps, i, max_delay) ==
    IF i > Len(steps) THEN max_delay
    ELSE MaxDelayFrom(steps, i + 1,
            IF steps[i].transit /\ steps[i].delay_minutes > max_delay
            THEN steps[i].delay_minutes ELSE max_delay)

\* the delay of the first transit step only
get_route_max_delay_first_step(route) ==
    LET ts == SelectSeq(route.steps, LAMBDA s : s.transit)
    IN  IF Len(ts) = 0 THEN 0
        ELSE IF ts[1].delay_minutes > 0 THEN ts[1].delay_minutes ELSE 0

get_route_max_delay(route) == MaxDelayFrom(route.steps, 1, 0)

RECURSIVE TotalDelayFrom(_, _)
TotalDelayFrom(steps, i) ==
    IF i > Len(steps) THEN 0
    ELSE (IF steps[i].transit THEN steps[i].delay_minutes ELSE 0)
            + TotalDelayFrom(steps, i + 1)

get_route_total_delay(route) == TotalDelayFrom(route.steps, 1)

has_service_alerts(route) ==
    \E i \in 1..Len(route.steps) :
        route.steps[i].transit /\ route.steps[i].alert

filter_routes_with_service_alerts(rs) ==
    [valid_routes |-> SelectSeq(rs, LAMBDA r : ~has_service_alerts(r)),
     filtered_routes |-> SelectSeq(rs, LAMBDA r : has_service_alerts(r))]

\* sorted(routes, key=(max_delay, total_delay)); the sort is stable
DelayKeyLess(a, b) ==
    \/ get_route_max_delay(a) < get_route_max_delay(b)
    \/ /\ get_route_max_delay(a) = get_route_max_delay(b)
       /\ get_route_total_delay(a) < get_route_total_delay(b)

InsertByDelay(sorted, r) ==
    LET k == Cardinality({i \in 1..Len(sorted) : ~DelayKeyLess(r, sorted[i])})
    IN  SubSeq(sorted, 1, k) \o <<r>> \o SubSeq(sorted, k + 1, Len(sorted))

RECURSIVE SortFrom(_, _, _)
SortFrom(rs, i, sorted) ==
    IF i > Len(rs) THEN sorted
    ELSE SortFrom(rs, i + 1, InsertByDelay(sorted, rs[i]))

sort_routes_by_delay(rs) == SortFrom(rs, 1, <<>>)

filter_routes_by_delay_threshold(rs, max_delay_minutes) ==
    [valid_routes |->
        SelectSeq(rs, LAMBDA r : ~(get_route_max_delay(r) > max_delay_minutes)),
     filtered_routes |->
        SelectSeq(rs, LAMBDA r : get_route_max_delay(r) > max_delay_minutes)]

\* the short names of the route's transit steps
transit_routes_of(route) ==
    {route.steps[i].short_name :
        i \in {j \in 1..Len(route.steps) :
                  route.steps[j].transit /\ route.steps[j].short_name # ""}}

find_alternative_transit_routes(delayed_route, all_routes, delay_threshold) ==
    IF get_route_max_delay(delayed_route) < delay_threshold THEN <<>>
    ELSE LET found ==
                SelectSeq(all_routes, LAMBDA r :
                    /\ r.id # delayed_route.id
                    /\ transit_routes_of(r) # {}
                    /\ transit_routes_of(r)
                          \cap transit_routes_of(delayed_route) = {}
                    /\ get_route_max_delay(r) < delay_threshold)
         IN  Take(sort_routes_by_delay(found), 3)

\* arguments: routes, filter_service_alerts, filter_high_delays,
\* delay_threshold, prefer_on_time
apply_translink_enhancements(rs, filter_alerts, filter_delays, thr, sorted) ==
    LET after_alerts ==
            IF filter_alerts
            THEN filter_routes_with_service_alerts(rs).valid_routes
            ELSE rs
        by_delay == filter_routes_by_delay_threshold(after_alerts, thr)
        after_delay ==
            IF filter_delays THEN by_delay.valid_routes
            ELSE after_alerts
        high_delay_routes ==
            IF filter_delays THEN by_delay.filtered_routes ELSE <<>>
    IN  [enhanced_routes |->
            IF sorted THEN sort_routes_by_delay(after_delay)
            ELSE after_delay,
         high_delay_routes |-> high_delay_routes,
         alternatives_by_route |->
            [i \in 1..Len(rs) |->
                IF \E k \in 1..Len(high_delay_routes) :
                      high_delay_routes[k].id = i
                THEN find_alternative_transit_routes(rs[i], rs, thr)
                ELSE <<>>]]

InitDelay ==
    /\ NotDelayIdle
    /\ dl_routes \in DelayRouteLists
    /\ dl_threshold \in DelayThresholds
    /\ dl_filter_alerts \in BOOLEAN
    /\ dl_valid = <<>>
    /\ dl_filtered = <<>>
    /\ dl_filter_called = FALSE
    /\ dl_enhanced = <<>>
    /\ dl_high_delay = <<>>
    /\ dl_alternatives = <<>>
    /\ dl_apply_called = FALSE

\* filter_routes_by_delay_threshold(routes, threshold)
CallFilterByDelay ==
    /\ ~dl_filter_called
    /\ LET res == filter_routes_by_delay_threshold(dl_routes, dl_threshold)
       IN  /\ dl_valid' = res.valid_routes
           /\ dl_filtered' = res.filtered_routes
    /\ dl_filter_called' = TRUE
    /\ UNCHANGED <<dl_routes, dl_threshold, dl_filter_alerts, dl_enhanced,
                   dl_high_delay, dl_alternatives, dl_apply_called>>
    /\ UNCHANGED not_delay_vars

\* apply_translink_enhancements(routes, filter_service_alerts, True,
\* threshold, True)
CallApplyEnhancements ==
    /\ ~dl_apply_called
    /\ LET res == apply_translink_enhancements(dl_routes, dl_filter_alerts,
                                               TRUE, dl_threshold, TRUE)
       IN  /\ dl_enhanced' = res.enhanced_routes
           /\ dl_high_delay' = res.high_delay_routes
           /\ dl_alternatives' = res.alternatives_by_route
    /\ dl_apply_called' = TRUE
    /\ UNCHANGED <<dl_routes, dl_threshold, dl_filter_alerts, dl_valid,
                   dl_filtered, dl_filter_called>>
    /\ UNCHANGED not_delay_vars

NextDelay == CallFilterByDelay \/ CallApplyEnhancements

SpecDelay == InitDelay /\ [][NextDelay]_vars

CountIn(seq, r) == Cardinality({k \in 1..Len(seq) : seq[k] = r})

\* some step of the route reports a delay above d
ReportsDelayAbove(route, d) ==
    \E j \in 1..Len(route.steps) :
        route.steps[j].transit /\ route.steps[j].delay_minutes > d

\* C17: delay-threshold filtering puts every input route in exactly one of
\* the kept and filtered lists, and a route is filtered if and only if the
\* largest delay reported on one of its steps exceeds the threshold.
C17_DelayFilterPartition ==
    dl_filter_called =>
        \A i \in 1..Len(dl_routes) :
            /\ CountIn(dl_valid, dl_routes[i])
                  + CountIn(dl_filtered, dl_routes[i]) = 1
            /\ CountIn(dl_filtered, dl_routes[i]) = 1
                  <=> ReportsDelayAbove(dl_routes[i], dl_threshold)
            /\ Len(dl_valid) + Len(dl_filtered) = Len(dl_routes)

C17_Witness ==
    /\ dl_filter_called
    /\ Len(dl_valid) > 0
    /\ Len(dl_filtered) > 0
    /\ \E k \in 1..Len(dl_filtered) :
          /\ Len(dl_filtered[k].steps) > 1
          /\ ~(dl_filtered[k].steps[1].delay_minutes > dl_threshold)

\* the candidates the alternates of route i are to be taken from: every
\* other route that shares no transit route number with it and whose worst
\* single-step delay is within the threshold
EligibleAlternates(i) ==
    {k \in 1..Len(dl_routes) :
        /\ k # i
        /\ transit_routes_of(dl_routes[k])
              \cap transit_routes_of(dl_routes[i]) = {}
        /\ ~ReportsDelayAbove(dl_routes[k], dl_threshold)}

\* C18: for each route filtered for excessive delay the alternates offered
\* are exactly the (up to 3) least-delayed candidates other than the route
\* itself that share no transit route number with it and whose worst
\* single-step delay is less than or equal to the threshold.
C18_AlternatesAreLeastDelayed ==
    dl_apply_called =>
        \A h \in 1..Len(dl_high_delay) :
            LET i == dl_high_delay[h].id
                alts == dl_alternatives[i]
                offered == {alts[k].id : k \in 1..Len(alts)}
                E == EligibleAlternates(i)
            IN  /\ offered \subseteq E
                /\ Cardinality(offered) = Len(alts)
                /\ Len(alts) = (IF Cardinality(E) < 3 THEN Cardinality(E)
                                ELSE 3)
                /\ \A a \in offered, e \in E \ offered :
                      get_route_max_delay(dl_routes[a])
                          <= get_route_max_delay(dl_routes[e])

(***************************************************************************)
(* Conversion of one Google Maps step into a RouteStep, with the live      *)
(* delay of its departure stop: routing/route_converter.py                 *)
(* (convert_google_route_to_route, _extract_transit_details) and the copy  *)
(* embedded in routing_engine.py (_convert_google_route_to_route).         *)
(* Durations and delays are seconds; stops are given by stop id and every  *)
(* stop time update carries a scheduled time.                              *)
(***************************************************************************)
MaxTripUpdates == 2

\* routes.txt: short name -> route id
routes_by_short_name == [sn \in {"99"} |-> "6641"]

GoogleSteps ==
    [mode : {"walking", "bus"},
     duration : {300, 600},
     has_transit_details : BOOLEAN,
     short_name : {"", "99"},
     departure_stop : {"s1"}]

TripUpdates ==
    [route_id : {"6641", "99"}, stop_id : {"s1", "s2"},
     delay : {-60, 0, 90, 120}]

TripUpdateLists == SeqsUpTo(TripUpdates, MaxTripUpdates)

ConvWeathers ==
    {NoWeather, MakeWeather("clear", 10), MakeWeather("rain", 10),
     MakeWeather("snow", 40)}

NoArrival ==
    [found |-> FALSE, delay_seconds |-> 0, delay_minutes |-> 0,
     is_delayed |-> FALSE]

NoTransitDetails ==
    [present |-> FALSE, realtime |-> FALSE, delay_seconds |-> 0,
     delay_minutes |-> 0, is_delayed |-> FALSE]

get_route_id_by_short_name(short_name, loaded) ==
    IF loaded /\ short_name \in DOMAIN routes_by_short_name
    THEN <<routes_by_short_name[short_name]>>
    ELSE <<>>

\* GTFSRTParser.get_stop_arrival_time: the first stop time update of the
\* route at the stop
get_stop_arrival_time(trip_updates, route_id, stop_id) ==
    LET hits == SelectSeq(trip_updates, LAMBDA u :
                    u.route_id = route_id /\ u.stop_id = stop_id)
    IN  IF Len(hits) = 0 THEN NoArrival
        ELSE [found |-> TRUE,
              delay_seconds |-> hits[1].delay,
              delay_minutes |-> hits[1].delay \div 60,
              is_delayed |-> hits[1].delay > 0]

get_realtime_transit_info(step, trip_updates, loaded) ==
    LET by_name == get_route_id_by_short_name(step.short_name, loaded)
        resolved_route_id ==
            IF by_name # <<>> THEN by_name[1] ELSE step.short_name
    IN  IF Len(trip_updates) = 0 \/ step.short_name = "" THEN NoArrival
        ELSE get_stop_arrival_time(trip_updates, resolved_route_id,
                                   step.departure_stop)

is_transit_step(step) ==
    step.mode \in {"bus", "skytrain"} /\ step.has_transit_details

\* step_duration after the walking and biking weather adjustment
weather_adjusted_duration(step, weather) ==
    IF weather # NoWeather /\ step.mode \in {"walking", "biking"}
    THEN (step.duration * calculate_weather_penalty(weather)) \div 100
    ELSE step.duration

\* int(step_duration * (1.0 + (weather_penalty - 1.0) * 0.3))
transit_weather_duration(step_duration, weather) ==
    IF weather # NoWeather /\ step_duration > 0
    THEN (step_duration
            * (1000 + (calculate_weather_penalty(weather) - 100) * 3))
         \div 1000
    ELSE step_duration

\* the transit_details dictionary and the step_duration the transit branch
\* computes
enrich_transit_step(step, step_duration, trip_updates, weather, loaded) ==
    LET real_time_arrival == get_realtime_transit_info(step, trip_updates,
                                                       loaded)
        delayed_duration ==
            IF real_time_arrival.found /\ real_time_arrival.delay_seconds > 0
            THEN step_duration + real_time_arrival.delay_seconds
            ELSE step_duration
    IN  [transit_details |->
            [present |-> TRUE,
             realtime |-> real_time_arrival.found,
             delay_seconds |-> real_time_arrival.delay_seconds,
             delay_minutes |-> real_time_arrival.delay_minutes,
             is_delayed |-> real_time_arrival.is_delayed],
         step_duration |-> transit_weather_duration(delayed_duration, weather)]

\* routing_engine.py: the transit branch is inline and assigns the
\* converter's own step_duration
engine_convert_step(step, trip_updates, weather, loaded) ==
    LET step_duration == weather_adjusted_duration(step, weather)
        enriched == enrich_transit_step(step, step_duration, trip_updates,
                                        weather, loaded)
    IN  IF is_transit_step(step)
        THEN [estimated_time |-> enriched.step_duration,
              transit_details |-> enriched.transit_details]
        ELSE [estimated_time |-> step_duration,
              transit_details |-> NoTransitDetails]

\* route_converter.py: _extract_transit_details receives step_duration by
\* value and returns the dictionary only
extract_transit_details(step, step_duration, trip_updates, weather, loaded) ==
    IF is_transit_step(step)
    THEN enrich_transit_step(step, step_duration, trip_updates, weather,
                             loaded).transit_details
    ELSE NoTransitDetails

extracted_convert_step(step, trip_updates, weather, loaded) ==
    LET step_duration == weather_adjusted_duration(step, weather)
    IN  [estimated_time |-> step_duration,
         transit_details |->
            extract_transit_details(step, step_duration, trip_updates,
                                    weather, loaded)]

InitConv ==
    /\ NotConvIdle
    /\ cv_step \in GoogleSteps
    /\ cv_updates \in TripUpdateLists
    /\ cv_weather \in ConvWeathers
    /\ cv_gtfs_loaded \in BOOLEAN
    /\ cv_converter = "none"
    /\ cv_route_step = <<>>

ConvertEngine ==
    /\ cv_converter = "none"
    /\ cv_converter' = "engine"
    /\ cv_route_step' = engine_convert_step(cv_step, cv_updates, cv_weather,
                                            cv_gtfs_loaded)
    /\ UNCHANGED <<cv_step, cv_updates, cv_weather, cv_gtfs_loaded>>
    /\ UNCHANGED not_conv_vars

ConvertExtracted ==
    /\ cv_converter = "none"
    /\ cv_converter' = "extracted"
    /\ cv_route_step' = extracted_convert_step(cv_step, cv_updates,
                                               cv_weather, cv_gtfs_loaded)
    /\ UNCHANGED <<cv_step, cv_updates, cv_weather, cv_gtfs_loaded>>
    /\ UNCHANGED not_conv_vars

NextConv == ConvertEngine \/ ConvertExtracted

SpecConv == InitConv /\ [][NextConv]_vars

\* the live trip update the step's route and stop resolve to
LiveArrival ==
    get_realtime_transit_info(cv_step, cv_updates, cv_gtfs_loaded)

\* C19: when a transit step's stop and route resolve to a live trip update
\* with a positive delay of d seconds, the RouteStep is flagged delayed and
\* its estimated time includes d, in the extracted converter and in the one
\* embedded in the engine.
C19_DelayInEstimatedTime ==
    (/\ cv_converter # "none"
     /\ is_transit_step(cv_step)
     /\ LiveArrival.found
     /\ LiveArrival.delay_seconds > 0)
        => /\ cv_route_step.transit_details.is_delayed
           /\ cv_route_step.estimated_time
                 >= cv_step.duration + LiveArrival.delay_seconds

(***************************************************************************)
(* gtfs_static.py: GTFSStaticParser.get_stop_id_by_name and                *)
(* _select_best_stop.  The name looked up is "ubc exchange"; a stop's id   *)
(* is its line number in stops.txt; location_type 1 is a station, 0 a bay  *)
(* or plain stop.                                                          *)
(***************************************************************************)
MaxStops == 3

QueryName == "ubc exchange"

StopNames == {"ubc exchange", "ubc exchange @ bay 9", "main st"}

\* name.startswith(stop_name_lower)
name_startswith_query(name) ==
    name \in {"ubc exchange", "ubc exchange @ bay 9"}

KnownRouteId == "6641"

StopTables ==
    UNION {{[i \in 1..k |-> [stop_id |-> i, stop_name |-> t[i].stop_name,
                             location_type |-> t[i].location_type]] :
                t \in [1..k -> [stop_name : StopNames,
                                location_type : {0, 1}]]} :
           k \in 0..MaxStops}

\* stops_by_name.get(name)
stops_by_name(stops, name) ==
    SelectSeq(stops, LAMBDA s : s.stop_name = name)

\* the stops handed to _select_best_stop: the exact matches, or else the
\* stops whose name starts with the name looked up
matching_stops(stops) ==
    IF Len(stops_by_name(stops, QueryName)) > 0
    THEN stops_by_name(stops, QueryName)
    ELSE SelectSeq(stops, LAMBDA s : name_startswith_query(s.stop_name))

select_best_stop(stops, route_id, prefer_station, route_stop_ids) ==
    IF Len(stops) = 0 THEN <<>>
    ELSE IF Len(stops) = 1 THEN <<stops[1].stop_id>>
    ELSE LET station_stops == SelectSeq(stops, LAMBDA s : s.location_type = 1)
             preferred ==
                IF prefer_station /\ Len(station_stops) > 0
                THEN station_stops ELSE stops
             matching_route_stops ==
                SelectSeq(preferred, LAMBDA s : s.stop_id \in route_stop_ids)
         IN  IF route_id # "" /\ route_stop_ids # {}
                /\ Len(matching_route_stops) > 0
             THEN <<matching_route_stops[1].stop_id>>
             ELSE <<preferred[1].stop_id>>

get_stop_id_by_name(stops, route_id, prefer_station, route_stop_ids) ==
    select_best_stop(matching_stops(stops), route_id, prefer_station,
                     IF route_id = KnownRouteId THEN route_stop_ids ELSE {})

InitStop ==
    /\ NotStopIdle
    /\ st_stops \in StopTables
    /\ st_route_stops \in SUBSET (1..Len(st_stops))
    /\ st_route_id \in {"", KnownRouteId}
    /\ st_prefer_station \in BOOLEAN
    /\ st_called = FALSE
    /\ st_result = <<>>

CallGetStopIdByName ==
    /\ ~st_called
    /\ st_called' = TRUE
    /\ st_result' = get_stop_id_by_name(st_stops, st_route_id,
                                        st_prefer_station, st_route_stops)
    /\ UNCHANGED <<st_stops, st_route_stops, st_route_id, st_prefer_station>>
    /\ UNCHANGED not_stop_vars

NextStop == CallGetStopIdByName

SpecStop == InitStop /\ [][NextStop]_vars

\* some stop matching the name, station or bay, is visited by the route
SomeMatchVisited ==
    \E k \in 1..Len(matching_stops(st_stops)) :
        matching_stops(st_stops)[k].stop_id \in st_route_stops

\* C20: when a stop name is resolved with a known route id and at least one
\* of the matching stops is among the stop ids the route visits, the stop
\* id returned is one the route visits.
C20_ReturnedStopOnRoute ==
    (st_called /\ st_route_id = KnownRouteId /\ SomeMatchVisited)
        => /\ st_result # <<>>
           /\ st_result[1] \in st_route_stops

\* C28: no route offered as an alternate by apply_translink_enhancements is
\* a route the same call filtered out, for a service alert or for a delay
\* above the threshold.
C28_AlternatesNotFiltered ==
    dl_apply_called =>
        \A i \in 1..Len(dl_alternatives) :
            \A k \in 1..Len(dl_alternatives[i]) :
                /\ ~(dl_filter_alerts
                        /\ has_service_alerts(dl_alternatives[i][k]))
                /\ \A h \in 1..Len(dl_high_delay) :
                      dl_high_delay[h].id # dl_alternatives[i][k].id

\* C30: the converter of route_converter.py and the one embedded in the
\* engine are equivalent: for the same step, mode and real-time data they
\* give the same estimated time (and so the same total time).
C30_ConvertersEquivalent ==
    cv_converter # "none" =>
        /\ cv_route_step.estimated_time
              = engine_convert_step(cv_step, cv_updates, cv_weather,
                                    cv_gtfs_loaded).estimated_time
        /\ cv_route_step.estimated_time
              = extracted_convert_step(cv_step, cv_updates, cv_weather,
                                       cv_gtfs_loaded).estimated_time

(***************************************************************************)
(* Claims about the returned path, and _find_route_for_preference, which   *)
(* turns the path of the search into a Route (routing_engine.py 305-333,   *)
(* 563-650).                                                               *)
(***************************************************************************)
\* C29: every path the search returns is a well-formed walk: it starts at
\* start, ends at goal, each step begins where the previous one ended, and
\* each step (u, v, m) follows an existing edge u -> v that permits m, with
\* m among the caller's allowed modes.
C29_PathWellFormed ==
    (astar_pc = "returned" /\ astar_result.kind = "path") =>
        LET p == astar_result.path
        IN  /\ Len(p) = 0 => start = goal
            /\ Len(p) > 0 => (p[1][1] = start /\ p[Len(p)][2] = goal)
            /\ \A i \in 1..(Len(p) - 1) : p[i][2] = p[i + 1][1]
            /\ \A i \in 1..Len(p) :
                  /\ p[i][3] \in SeqToSet(allowed_modes)
                  /\ \E e \in edges :
                        /\ e.from_node = p[i][1]
                        /\ e.to_node = p[i][2]
                        /\ p[i][3] \in SeqToSet(e.allowed_modes)

C29_Witness ==
    /\ astar_pc = "returned"
    /\ astar_result.kind = "path"
    /\ Len(astar_result.path) = 2
    /\ \E e \in edges : Len(e.allowed_modes) = 2
    /\ Len(allowed_modes) = 1

\* _path_to_route: one RouteStep per path element whose edge exists
RECURSIVE path_to_route(_, _, _)
path_to_route(path, i, acc) ==
    IF i > Len(path) THEN acc
    ELSE LET out == {e \in edges : e.from_node = path[i][1]
                                     /\ e.to_node = path[i][2]}
         IN  IF out = {} THEN path_to_route(path, i + 1, acc)
             ELSE LET edge == CHOOSE e \in out : TRUE
                  IN  path_to_route(path, i + 1,
                        [kind |-> "route",
                         steps |-> acc.steps + 1,
                         total_distance |-> acc.total_distance + edge.distance,
                         total_time |->
                            acc.total_time
                              + (edge.distance * 3600)
                                  \div (MODE_SPEEDS[path[i][3]] * 1000)])

NoRoute ==
    [kind |-> "none", steps |-> 0, total_distance |-> 0, total_time |-> 0]

\* "if not path: return None" treats the empty path like no path
find_route_for_preference(result) ==
    IF result.kind = "none" \/ Len(result.path) = 0 THEN NoRoute
    ELSE path_to_route(result.path, 1,
            [kind |-> "route", steps |-> 0, total_distance |-> 0,
             total_time |-> 0])

FindRouteReturn ==
    /\ astar_pc = "returned"
    /\ pr_route.kind = "pending"
    /\ pr_route' = find_route_for_preference(astar_result)
    /\ UNCHANGED base_vars
    /\ UNCHANGED not_pref_vars

NextPref == NextAstar \/ FindRouteReturn

SpecPref == InitAstar /\ [][NextPref]_vars

\* C25: when origin and destination are the same node, route finding for a
\* preference yields a zero-length route (no edges, zero distance and time)
\* and not the "no path" outcome.
C25_SameNodeZeroLengthRoute ==
    (start = goal /\ pr_route.kind # "pending") =>
        /\ pr_route.kind = "route"
        /\ pr_route.steps = 0
        /\ pr_route.total_distance = 0
        /\ pr_route.total_time = 0

(***************************************************************************)
(* Two requests handled concurrently by the one RoutingEngine of the       *)
(* process (main.py 67-68): each coroutine runs find_routes, which writes  *)
(* the edges' dynamic fields (routing_engine.py 141, 813-838), awaits the  *)
(* directions calls (180-192) and then costs edges from the same fields    *)
(* (421-453).  A coroutine is suspended only at an await.                  *)
(***************************************************************************)
MaxRequests == 2

ConcRequests == 1..MaxRequests

\* calculate_weather_penalty of the weather each request may fetch
ConcPenalties ==
    {calculate_weather_penalty(MakeWeather(c, 10)) :
        c \in {"clear", "rain", "snow"}}

InitConc ==
    /\ NotConcIdle
    /\ rq_pc = [r \in ConcRequests |-> "start"]
    /\ rq_penalty = [r \in ConcRequests |-> 100]
    /\ shared_weather_penalty = 100
    /\ rq_read = [r \in ConcRequests |-> <<>>]

\* "await asyncio.wait_for(get_all_data(...))": the weather is fetched
RequestFetch(r) ==
    /\ rq_pc[r] = "start"
    /\ \E p \in ConcPenalties : rq_penalty' = [rq_penalty EXCEPT ![r] = p]
    /\ rq_pc' = [rq_pc EXCEPT ![r] = "fetched"]
    /\ UNCHANGED <<shared_weather_penalty, rq_read>>
    /\ UNCHANGED not_conc_vars

\* _update_graph_with_real_time_data: every edge gets the request's penalty;
\* the coroutine then awaits the directions call
RequestFuse(r) ==
    /\ rq_pc[r] = "fetched"
    /\ shared_weather_penalty' = rq_penalty[r]
    /\ rq_pc' = [rq_pc EXCEPT ![r] = "await_directions"]
    /\ UNCHANGED <<rq_penalty, rq_read>>
    /\ UNCHANGED not_conc_vars

\* the directions call answers (or times out) and the coroutine resumes
RequestDirections(r) ==
    /\ rq_pc[r] = "await_directions"
    /\ rq_pc' = [rq_pc EXCEPT ![r] = "search"]
    /\ UNCHANGED <<rq_penalty, shared_weather_penalty, rq_read>>
    /\ UNCHANGED not_conc_vars

\* the search costs the edges: the cost function reads edge.weather_penalty
RequestSearch(r) ==
    /\ rq_pc[r] = "search"
    /\ rq_read' = [rq_read EXCEPT ![r] = <<shared_weather_penalty>>]
    /\ rq_pc' = [rq_pc EXCEPT ![r] = "done"]
    /\ UNCHANGED <<rq_penalty, shared_weather_penalty>>
    /\ UNCHANGED not_conc_vars

NextConc ==
    \E r \in ConcRequests :
        \/ RequestFetch(r)
        \/ RequestFuse(r)
        \/ RequestDirections(r)
        \/ RequestSearch(r)

SpecConc == InitConc /\ [][NextConc]_vars

\* C27: with two requests on one shared graph each request's search reads
\* only the penalties its own fusion wrote: between a request's fusion and
\* the end of its search no other request's fusion writes the shared edge
\* fields.
C27_SearchReadsOwnFusion ==
    \A r \in ConcRequests :
        /\ rq_pc[r] \in {"await_directions", "search"}
              => shared_weather_penalty = rq_penalty[r]
        /\ rq_pc[r] = "done" => rq_read[r] = <<rq_penalty[r]>>

(***************************************************************************)
(* routing/route_utils.py (calculate_route_safety_score,                   *)
(* calculate_energy_efficiency, calculate_scenic_score) and                *)
(* routing/route_scoring.py (apply_preference_scoring).  Scores are in     *)
(* thousandths: 1000 is 1.0.                                               *)
(***************************************************************************)
MaxScoreSteps == 2
MaxScoringRounds == 2

ScoreModes == {"walking", "biking", "scooter", "car", "bus"}

\* the preference lists scoring is applied with: none, one preference, a
\* repeated preference, and all six
ScoringPreferences ==
    {<<>>, RoutePreferenceOrder}
        \cup {<<p>> : p \in RoutePreference}
        \cup {<<p, p, p>> : p \in RoutePreference}

RECURSIVE SumOver(_, _, _)
SumOver(modes, i, score) ==
    IF i > Len(modes) THEN 0
    ELSE score[modes[i]] + SumOver(modes, i + 1, score)

step_safety ==
    [mode \in TransportMode |->
        IF mode \in {"walking", "biking", "scooter"} THEN 900
        ELSE IF mode = "car" THEN 700 ELSE 800]

step_efficiency ==
    [mode \in TransportMode |->
        CASE mode = "walking" -> 1000
          [] mode = "biking" -> 900
          [] mode \in {"bus", "skytrain"} -> 700
          [] mode = "scooter" -> 600
          [] mode = "car" -> 300
          [] OTHER -> 500]

step_scenic ==
    [mode \in TransportMode |->
        IF mode \in {"walking", "biking"} THEN 800
        ELSE IF mode = "car" THEN 400 ELSE 600]

calculate_route_safety_score(modes) ==
    IF Len(modes) = 0 THEN 1000
    ELSE SumOver(modes, 1, step_safety) \div Len(modes)

calculate_energy_efficiency(modes) ==
    IF Len(modes) = 0 THEN 1000
    ELSE SumOver(modes, 1, step_efficiency) \div Len(modes)

calculate_scenic_score(modes) ==
    IF Len(modes) = 0 THEN 500
    ELSE SumOver(modes, 1, step_scenic) \div Len(modes)

Min(a, b) == IF a < b THEN a ELSE b

\* one preference applied without the min(1.0, ...) cap
score_one_preference_uncapped(route, pref) ==
    CASE pref = "safest" ->
            [route EXCEPT !.safety_score = (@ * 11) \div 10]
      [] pref = "energy_efficient" ->
            [route EXCEPT !.energy_efficiency = (@ * 11) \div 10]
      [] pref = "scenic" ->
            [route EXCEPT !.scenic_score = (@ * 11) \div 10]
      [] pref = "healthy" ->
            [route EXCEPT !.total_sustainability_points = (@ * 12) \div 10]
      [] OTHER -> route

score_one_preference(route, pref) ==
    CASE pref = "safest" ->
            [route EXCEPT !.safety_score = Min(1000, (@ * 11) \div 10)]
      [] pref = "energy_efficient" ->
            [route EXCEPT !.energy_efficiency = Min(1000, (@ * 11) \div 10)]
      [] pref = "scenic" ->
            [route EXCEPT !.scenic_score = Min(1000, (@ * 11) \div 10)]
      [] pref = "healthy" ->
            [route EXCEPT !.total_sustainability_points = (@ * 12) \div 10]
      [] OTHER -> route

RECURSIVE apply_preference_scoring(_, _, _)
apply_preference_scoring(route, preferences, i) ==
    IF i > Len(preferences) THEN route
    ELSE apply_preference_scoring(score_one_preference(route, preferences[i]),
                                  preferences, i + 1)

InitScore ==
    /\ NotScoreIdle
    /\ sc_modes \in SeqsUpTo(ScoreModes, MaxScoreSteps)
    /\ sc_route = <<>>
    /\ sc_rounds = 0

\* Route(...) is assembled from its steps
AssembleRoute ==
    /\ sc_route = <<>>
    /\ \E points \in {0, 10} :
          sc_route' =
            [safety_score |-> calculate_route_safety_score(sc_modes),
             energy_efficiency |-> calculate_energy_efficiency(sc_modes),
             scenic_score |-> calculate_scenic_score(sc_modes),
             total_sustainability_points |-> points]
    /\ UNCHANGED <<sc_modes, sc_rounds>>
    /\ UNCHANGED not_score_vars

ApplyPreferenceScoring ==
    /\ sc_route # <<>>
    /\ sc_rounds < MaxScoringRounds
    /\ \E preferences \in ScoringPreferences :
          sc_route' = apply_preference_scoring(sc_route, preferences, 1)
    /\ sc_rounds' = sc_rounds + 1
    /\ UNCHANGED sc_modes
    /\ UNCHANGED not_score_vars

NextScore == AssembleRoute \/ ApplyPreferenceScoring

SpecScore == InitScore /\ [][NextScore]_vars

\* C26: a Route's safety, energy and scenic scores are within [0, 1] when
\* the route is assembled and after any sequence of preference-scoring
\* applications, including repeated preferences and all six at once.
C26_ScoresWithinUnitInterval ==
    sc_route # <<>> =>
        /\ sc_route.safety_score \in 0..1000
        /\ sc_route.energy_efficiency \in 0..1000
        /\ sc_route.scenic_score \in 0..1000

C26_Witness ==
    /\ sc_route # <<>>
    /\ sc_rounds = MaxScoringRounds
    /\ Len(sc_modes) > 0
    /\ sc_route.safety_score = 1000
    /\ sc_route.scenic_score > calculate_scenic_score(sc_modes)

(***************************************************************************)
(* routing/route_converter.py: convert_google_route_to_route over all the  *)
(* steps of a route.  The live lookup of a step (ensure_gtfs_loaded,       *)
(* get_route_id_by_short_name, get_realtime_transit_info) may raise; it    *)
(* runs inside "try ... except Exception" (lines 242-284), and the whole   *)
(* conversion inside the outer try of lines 32-153.                        *)
(***************************************************************************)
MaxConvSteps == 2

\* a walking step, a bus step of line 99 at stop s1, a bus step whose line
\* has no short name
RouteConvSteps ==
    {s \in GoogleSteps :
        /\ s.duration = 300
        /\ (s.mode = "walking") = ~s.has_transit_details
        /\ s.mode = "walking" => s.short_name = ""}

RouteConvInputs == [step : RouteConvSteps, lookup_raises : BOOLEAN]

RouteConvUpdates ==
    SeqsUpTo({u \in TripUpdates : u.route_id = "99" /\ u.delay = 90}, 1)

\* convert_route_step is one iteration of the step loop: the except branch of the lookup leaves
\* transit_details as built from the directions data, which is what a
\* lookup over no trip updates gives
\* (convert_route_step_uncaught: the same with the exception left uncaught)
convert_route_step_uncaught(input, trip_updates, weather, loaded) ==
    [raised |-> input.lookup_raises /\ is_transit_step(input.step)
                   /\ Len(trip_updates) > 0 /\ input.step.short_name # "",
     route_step |-> extracted_convert_step(input.step, trip_updates, weather,
                                           loaded)]

convert_route_step(input, trip_updates, weather, loaded) ==
    [raised |-> FALSE,
     route_step |->
        extracted_convert_step(input.step,
            IF input.lookup_raises THEN <<>> ELSE trip_updates,
            weather, loaded)]

convert_google_route_to_route(inputs, trip_updates, weather, loaded) ==
    LET done == [i \in 1..Len(inputs) |->
                    convert_route_step(inputs[i], trip_updates, weather,
                                       loaded)]
    IN  IF \E i \in 1..Len(inputs) : done[i].raised
        THEN [kind |-> "none", steps |-> <<>>]
        ELSE IF Len(inputs) = 0 THEN [kind |-> "none", steps |-> <<>>]
        ELSE [kind |-> "route",
              steps |-> [i \in 1..Len(inputs) |-> done[i].route_step]]

InitRconv ==
    /\ NotRconvIdle
    /\ rv_steps \in SeqsUpTo(RouteConvInputs, MaxConvSteps)
    /\ rv_updates \in RouteConvUpdates
    /\ rv_weather \in {NoWeather, MakeWeather("rain", 10)}
    /\ rv_gtfs_loaded \in BOOLEAN
    /\ rv_route = <<>>

ConvertRoute ==
    /\ rv_route = <<>>
    /\ rv_route' = convert_google_route_to_route(rv_steps, rv_updates,
                                                 rv_weather, rv_gtfs_loaded)
    /\ UNCHANGED <<rv_steps, rv_updates, rv_weather, rv_gtfs_loaded>>
    /\ UNCHANGED not_rconv_vars

NextRconv == ConvertRoute

SpecRconv == InitRconv /\ [][NextRconv]_vars

\* step i's line and stop resolve to a live trip update and its lookup
\* does not raise
StepResolves(i) ==
    /\ ~rv_steps[i].lookup_raises
    /\ is_transit_step(rv_steps[i].step)
    /\ get_realtime_transit_info(rv_steps[i].step, rv_updates,
                                 rv_gtfs_loaded).found

\* C21: when the stop or route of a transit step cannot be resolved, or the
\* lookup raises, live-delay enrichment is left out for that step only: the
\* step is still produced with its static transit metadata, every other
\* step is still enriched, and the conversion returns a route.
C21_UnresolvedStepOnlyLosesEnrichment ==
    (rv_route # <<>> /\ Len(rv_steps) > 0) =>
        /\ rv_route.kind = "route"
        /\ Len(rv_route.steps) = Len(rv_steps)
        /\ \A i \in 1..Len(rv_steps) :
              /\ rv_route.steps[i].transit_details.present
                    = is_transit_step(rv_steps[i].step)
              /\ rv_route.steps[i].transit_details.realtime = StepResolves(i)
              /\ StepResolves(i) =>
                    rv_route.steps[i].transit_details.delay_seconds = 90

C21_Witness ==
    /\ rv_route # <<>>
    /\ Len(rv_steps) = 2
    /\ rv_steps[1].lookup_raises
    /\ is_transit_step(rv_steps[1].step)
    /\ rv_steps[1].step.short_name = "99"
    /\ ~rv_route.steps[1].transit_details.realtime
    /\ rv_route.steps[2].transit_details.realtime

(***************************************************************************)
(* src/app/graph_builder.py: VancouverGraphBuilder.build_graph and its     *)
(* layers.  A point is <<metres north, metres east>> of the centre point;  *)
(* distances are compared by their squares.                                *)
(***************************************************************************)
MaxGridRadius == 1
MaxStations == 1

\* grid_size = 100  # meters
grid_size == 100

\* lng_step = grid_size / (111000 * abs(center_point.lat)) degrees: at
\* latitude 49 that is about 1.3 m east-west, 1 m here
lng_spacing == 1

Layers == {"street", "transit", "mobility", "pedestrian"}

BoundingBoxes ==
    {[south |-> -1000, north |-> 1000, west |-> -1000, east |-> 1000],
     [south |-> -1000, north |-> 50, west |-> -1000, east |-> 1000]}

StationPoints == {<<50, 0>>, <<150, 0>>, <<350, 0>>}

LimeVehicles == [location : {<<50, 0>>, <<150, 0>>}, available : {0, 1}]

dist2(a, b) == (a[1] - b[1]) * (a[1] - b[1]) + (a[2] - b[2]) * (a[2] - b[2])

MakeNode(id, point, node_type) ==
    [id |-> id, point |-> point, node_type |-> node_type]

GraphEdge(u, v, modes) == [from_node |-> u, to_node |-> v, allowed_modes |-> modes]

node_ids(ns) == {ns[k].id : k \in 1..Len(ns)}

\* what a layer does with the exception of a failed fetch: the except
\* clause logs it and the layer returns
on_layer_error_raise == "raise"

on_layer_error == "skip"

\* _create_fallback_network: grid nodes inside the bounds, i-major, and an
\* edge from every grid node to each existing 4-neighbour
create_fallback_network(ns, es, radius, box) ==
    LET side == 2 * radius + 1
        cell(k) == <<((k - 1) \div side) - radius, ((k - 1) % side) - radius>>
        grid == [k \in 1..(side * side) |->
                    MakeNode(<<"grid", cell(k)[1], cell(k)[2]>>,
                             <<cell(k)[1] * grid_size,
                               cell(k)[2] * lng_spacing>>,
                             "intersection")]
        inside == SelectSeq(grid, LAMBDA n :
                      /\ box.south <= n.point[1] /\ n.point[1] <= box.north
                      /\ box.west <= n.point[2] /\ n.point[2] <= box.east)
        all == ns \o inside
        ids == node_ids(all)
    IN  [nodes |-> all,
         edges |-> es \cup
            {GraphEdge(id, <<"grid", id[2] + d[1], id[3] + d[2]>>,
                       {"walking", "biking", "car"}) :
                <<id, d>> \in
                    {p \in {x \in ids : x[1] = "grid"}
                            \X {<<0, 1>>, <<1, 0>>, <<0, -1>>, <<-1, 0>>} :
                        <<"grid", p[1][2] + p[2][1], p[1][3] + p[2][2]>>
                            \in ids}}]

\* the street network OpenStreetMap returns: two intersections 100 m apart
\* joined by a residential street
osm_street_network(ns, es) ==
    [nodes |-> ns \o <<MakeNode(<<"osm", 1>>, <<0, 0>>, "intersection"),
                          MakeNode(<<"osm", 2>>, <<100, 0>>, "intersection")>>,
     edges |-> es \cup
        {GraphEdge(<<"osm", 1>>, <<"osm", 2>>,
                   {"walking", "car", "biking", "scooter"}),
         GraphEdge(<<"osm", 2>>, <<"osm", 1>>,
                   {"walking", "car", "biking", "scooter"})}]

\* the first intersection at the least distance below the limit
nearest_street_node(ns, point, limit) ==
    LET near == {k \in 1..Len(ns) :
                    /\ ns[k].node_type = "intersection"
                    /\ dist2(point, ns[k].point) < limit * limit}
        best == {k \in near : \A o \in near :
                    \/ dist2(point, ns[k].point) < dist2(point, ns[o].point)
                    \/ /\ dist2(point, ns[k].point)
                            = dist2(point, ns[o].point)
                       /\ k <= o}
    IN  IF near = {} THEN <<>> ELSE <<ns[CHOOSE k \in best : TRUE].id>>

connect_transit_to_streets(ns, es, node) ==
    LET nearest == nearest_street_node(ns, node.point, 200)
    IN  IF nearest = <<>> THEN es
        ELSE es \cup {GraphEdge(node.id, nearest[1], {"walking"}),
                         GraphEdge(nearest[1], node.id, {"walking"})}

connect_shared_mobility_to_streets(ns, es, node) ==
    LET nearest == nearest_street_node(ns, node.point, 100)
    IN  IF nearest = <<>> THEN es
        ELSE es \cup {GraphEdge(node.id, nearest[1], {"walking"})}

RECURSIVE add_transit_stops(_, _, _, _)
add_transit_stops(ns, es, stops, k) ==
    IF k > Len(stops) THEN [nodes |-> ns, edges |-> es]
    ELSE LET node == MakeNode(<<"transit", k>>, stops[k], "transit_stop")
         IN  add_transit_stops(ns \o <<node>>,
                connect_transit_to_streets(ns \o <<node>>, es, node),
                stops, k + 1)

RECURSIVE add_lime_stations(_, _, _, _)
add_lime_stations(ns, es, vehicles, k) ==
    IF k > Len(vehicles) THEN [nodes |-> ns, edges |-> es]
    ELSE IF vehicles[k].available = 0
         THEN add_lime_stations(ns, es, vehicles, k + 1)
    ELSE LET node == MakeNode(<<"lime", k>>, vehicles[k].location,
                              "shared_mobility")
         IN  add_lime_stations(ns \o <<node>>,
                connect_shared_mobility_to_streets(ns \o <<node>>, es,
                                                   node),
                vehicles, k + 1)

\* the walk network OpenStreetMap returns: node 1 is a street node already,
\* nodes 3 and 4 are new; paths 1 -> 3 and 3 -> 4
osm_walk_network(ns, es) ==
    LET fresh == SelectSeq(<<1, 3, 4>>, LAMBDA n : <<"osm", n>> \notin node_ids(ns))
        all == ns \o [k \in 1..Len(fresh) |->
                        MakeNode(<<"ped", fresh[k]>>, <<0, 10 * fresh[k]>>,
                                 "pedestrian_path")]
    IN  [nodes |-> all,
         edges |-> es \cup
            {GraphEdge(<<"ped", p[1]>>, <<"ped", p[2]>>, {"walking", "biking"}) :
                p \in {q \in {<<1, 3>>, <<3, 4>>} :
                          /\ <<"ped", q[1]>> \in node_ids(all)
                          /\ <<"ped", q[2]>> \in node_ids(all)}}]

InitBuilder ==
    /\ NotBuilderIdle
    /\ gb_pc = "street"
    /\ gb_nodes = <<>>
    /\ gb_edges = {}
    /\ gb_osmnx \in BOOLEAN
    /\ gb_fetch \in [Layers -> BOOLEAN]
    /\ gb_stops \in SeqsUpTo(StationPoints, MaxStations)
    /\ gb_vehicles \in SeqsUpTo(LimeVehicles, MaxStations)
    /\ gb_box \in BoundingBoxes
    /\ gb_radius \in 1..MaxGridRadius
    /\ gb_attempted = {}

\* the step after layer l: the next layer, or the exception leaving
\* build_graph through its "except ... raise"
AfterLayer(l, next) ==
    /\ gb_attempted' = gb_attempted \cup {l}
    /\ gb_pc' = IF ~gb_fetch[l] /\ on_layer_error = "raise" THEN "raised"
                ELSE next
    /\ UNCHANGED <<gb_osmnx, gb_fetch, gb_stops, gb_vehicles, gb_box,
                   gb_radius>>
    /\ UNCHANGED not_builder_vars

\* _build_street_network: the fallback lattice replaces a street network
\* that is unavailable or whose download fails
BuildStreetNetwork ==
    /\ gb_pc = "street"
    /\ LET built == IF gb_osmnx /\ gb_fetch["street"]
                    THEN osm_street_network(gb_nodes, gb_edges)
                    ELSE create_fallback_network(gb_nodes, gb_edges,
                                                 gb_radius, gb_box)
       IN  /\ gb_nodes' = built.nodes
           /\ gb_edges' = built.edges
    /\ gb_attempted' = gb_attempted \cup {"street"}
    /\ gb_pc' = "transit"
    /\ UNCHANGED <<gb_osmnx, gb_fetch, gb_stops, gb_vehicles, gb_box,
                   gb_radius>>
    /\ UNCHANGED not_builder_vars

AddTransitNetwork ==
    /\ gb_pc = "transit"
    /\ LET built == IF gb_fetch["transit"]
                    THEN add_transit_stops(gb_nodes, gb_edges, gb_stops, 1)
                    ELSE [nodes |-> gb_nodes, edges |-> gb_edges]
       IN  /\ gb_nodes' = built.nodes
           /\ gb_edges' = built.edges
    /\ AfterLayer("transit", "mobility")

AddSharedMobilityStations ==
    /\ gb_pc = "mobility"
    /\ LET built == IF gb_fetch["mobility"]
                    THEN add_lime_stations(gb_nodes, gb_edges, gb_vehicles, 1)
                    ELSE [nodes |-> gb_nodes, edges |-> gb_edges]
       IN  /\ gb_nodes' = built.nodes
           /\ gb_edges' = built.edges
    /\ AfterLayer("mobility", "pedestrian")

AddPedestrianBikeNetwork ==
    /\ gb_pc = "pedestrian"
    /\ LET built == IF gb_osmnx /\ gb_fetch["pedestrian"]
                    THEN osm_walk_network(gb_nodes, gb_edges)
                    ELSE [nodes |-> gb_nodes, edges |-> gb_edges]
       IN  /\ gb_nodes' = built.nodes
           /\ gb_edges' = built.edges
    /\ AfterLayer("pedestrian", "costs")

\* _update_edge_costs resets the dynamic fields of every edge to their
\* defaults, and build_graph returns self.graph
UpdateEdgeCostsAndReturn ==
    /\ gb_pc = "costs"
    /\ gb_pc' = "returned"
    /\ UNCHANGED <<gb_nodes, gb_edges, gb_osmnx, gb_fetch, gb_stops,
                   gb_vehicles, gb_box, gb_radius, gb_attempted>>
    /\ UNCHANGED not_builder_vars

NextBuilder ==
    \/ BuildStreetNetwork
    \/ AddTransitNetwork
    \/ AddSharedMobilityStations
    \/ AddPedestrianBikeNetwork
    \/ UpdateEdgeCostsAndReturn

SpecBuilder == InitBuilder /\ [][NextBuilder]_vars


LatticeBuilt ==
    /\ gb_pc \notin {"idle", "street"}
    /\ ~(gb_osmnx /\ gb_fetch["street"])

LatticeIds == {n \in node_ids(gb_nodes) : n[1] = "grid"}

\* C22: when the street network cannot be built from OpenStreetMap, the
\* graph holds the regular lattice of intersections over the requested
\* radius, every lattice node has an edge to each of its existing
\* 4-neighbours, and every lattice edge allows all transport modes.
C22_FallbackLatticeAllowsAllModes ==
    LatticeBuilt =>
        /\ LatticeIds # {}
        /\ \A n \in LatticeIds :
              \A d \in {<<0, 1>>, <<1, 0>>, <<0, -1>>, <<-1, 0>>} :
                  LET m == <<"grid", n[2] + d[1], n[3] + d[2]>>
                  IN  m \in LatticeIds =>
                        \E e \in gb_edges : e.from_node = n /\ e.to_node = m
        /\ \A e \in gb_edges :
              e.from_node[1] = "grid" /\ e.to_node[1] = "grid"
                  => e.allowed_modes = TransportMode


\* the intersections within the limit of node k at the least distance
NearestIntersections(k, limit) ==
    LET near == {j \in 1..Len(gb_nodes) :
                    /\ gb_nodes[j].node_type = "intersection"
                    /\ dist2(gb_nodes[k].point, gb_nodes[j].point)
                            < limit * limit}
    IN  {j \in near : \A o \in near :
            dist2(gb_nodes[k].point, gb_nodes[j].point)
                <= dist2(gb_nodes[k].point, gb_nodes[o].point)}

LinkedBothWays(k, limit) ==
    NearestIntersections(k, limit) # {} =>
        \E j \in NearestIntersections(k, limit) :
            /\ GraphEdge(gb_nodes[k].id, gb_nodes[j].id, {"walking"}) \in gb_edges
            /\ GraphEdge(gb_nodes[j].id, gb_nodes[k].id, {"walking"}) \in gb_edges

\* C23: every transit-stop node with an intersection within 200 m and every
\* shared-mobility node with an intersection within 100 m is joined to its
\* nearest intersection by a walking-only edge in each direction.
C23_StationsLinkedBothWays ==
    \A k \in 1..Len(gb_nodes) :
        /\ gb_nodes[k].node_type = "transit_stop" => LinkedBothWays(k, 200)
        /\ gb_nodes[k].node_type = "shared_mobility" => LinkedBothWays(k, 100)

=============================================================================
